---- MODULE Spec2Model ----
(***************************************************************************)
(* A model of semmap: the SEMMAP document model (types.rs), its text       *)
(* parser (parser.rs), its serializer (formatter.rs), the reconciliation   *)
(* helpers (commands/update_helpers.rs, path_utils.rs) and the update      *)
(* command (commands.rs).                                                  *)
(*                                                                         *)
(* A string is a sequence of characters; a character is a one-character    *)
(* TLA+ string, except for the two non-ASCII characters of the format, the *)
(* em dash (U+2014) and the arrow (U+2192), and for the line feed, the     *)
(* carriage return, the tab and the backtick, which are named.             *)
(***************************************************************************)
EXTENDS Integers, Sequences, FiniteSets, TLC

EmDash == "EMDASH"
Arrow == "ARROW"
NL == "NL"
CR == "CR"
TAB == "TAB"
Backtick == "BACKTICK"

(***************************************************************************)
(* Character classes of the regex crate and of str::trim.                  *)
(***************************************************************************)
IsSpace(c) == c \in {" ", TAB, CR, NL}

IsDigit(c) == c \in {"0", "1", "2", "3", "4", "5", "6", "7", "8", "9"}

IsUpper(c) == c \in {"A", "B", "C", "D", "E", "F", "G", "H", "I", "J", "K", "L", "M",
                     "N", "O", "P", "Q", "R", "S", "T", "U", "V", "W", "X", "Y", "Z"}

IsDash(c) == c \in {EmDash, "-"}

DigitVal(c) ==
    CASE c = "0" -> 0 [] c = "1" -> 1 [] c = "2" -> 2 [] c = "3" -> 3 [] c = "4" -> 4
      [] c = "5" -> 5 [] c = "6" -> 6 [] c = "7" -> 7 [] c = "8" -> 8 [] c = "9" -> 9

DigitChar(n) == <<"0", "1", "2", "3", "4", "5", "6", "7", "8", "9">>[n + 1]

(***************************************************************************)
(* The literal strings of the document format.                             *)
(***************************************************************************)
SemanticMap == <<"S", "e", "m", "a", "n", "t", "i", "c", " ", "M", "a", "p">>
BoldPurpose == <<"*", "*", "P", "u", "r", "p", "o", "s", "e", ":", "*", "*">>
BarePurpose == <<"P", "u", "r", "p", "o", "s", "e", ":">>
LegendHeader == <<"#", "#", " ", "L", "e", "g", "e", "n", "d">>
LayerHeader == <<"#", "#", " ", "L", "a", "y", "e", "r">>
LayerWord == <<"L", "a", "y", "e", "r">>
ExportsMarker == <<Arrow, " ", "E", "x", "p", "o", "r", "t", "s", ":">>
TouchMarker == <<Arrow, " ", "T", "o", "u", "c", "h", ":">>

(***************************************************************************)
(* str helpers.                                                            *)
(***************************************************************************)
\* s[i..] starts with p (i is 1-based)
StartsWithAt(s, i, p) ==
    /\ i + Len(p) - 1 <= Len(s)
    /\ \A k \in 1..Len(p) : s[i + k - 1] = p[k]

StartsWith(s, p) == StartsWithAt(s, 1, p)

From(s, i) == SubSeq(s, i, Len(s))

\* the number of whitespace characters of s starting at i
RECURSIVE SpaceRun(_, _)
SpaceRun(s, i) ==
    IF i <= Len(s) /\ IsSpace(s[i]) THEN 1 + SpaceRun(s, i + 1) ELSE 0

RECURSIVE DigitRun(_, _)
DigitRun(s, i) ==
    IF i <= Len(s) /\ IsDigit(s[i]) THEN 1 + DigitRun(s, i + 1) ELSE 0

RECURSIVE UpperRun(_, _)
UpperRun(s, i) ==
    IF i <= Len(s) /\ IsUpper(s[i]) THEN 1 + UpperRun(s, i + 1) ELSE 0

\* str::trim
RECURSIVE TrimEnd(_)
TrimEnd(s) ==
    IF Len(s) > 0 /\ IsSpace(s[Len(s)]) THEN TrimEnd(SubSeq(s, 1, Len(s) - 1)) ELSE s

Trim(s) == TrimEnd(From(s, SpaceRun(s, 1) + 1))

\* the 1-based index of the first occurrence of p in s at or after i, 0 if none
RECURSIVE FindFrom(_, _, _)
FindFrom(s, i, p) ==
    IF i + Len(p) - 1 > Len(s) THEN 0
    ELSE IF StartsWithAt(s, i, p) THEN i
    ELSE FindFrom(s, i + 1, p)

\* str::split, on a one-character separator
RECURSIVE Split(_, _)
Split(s, sep) ==
    LET k == FindFrom(s, 1, <<sep>>) IN
    IF k = 0 THEN <<s>>
    ELSE <<SubSeq(s, 1, k - 1)>> \o Split(From(s, k + 1), sep)

\* [String]::join
RECURSIVE Join(_, _)
Join(parts, sep) ==
    IF Len(parts) = 0 THEN <<>>
    ELSE IF Len(parts) = 1 THEN parts[1]
    ELSE parts[1] \o sep \o Join(Tail(parts), sep)

\* str::lines: split at line feeds, a final empty piece is dropped, and a
\* carriage return before a line feed (or at the very end) is dropped.
StripCR(l) == IF Len(l) > 0 /\ l[Len(l)] = CR THEN SubSeq(l, 1, Len(l) - 1) ELSE l

RECURSIVE Lines(_)
Lines(content) ==
    IF Len(content) = 0 THEN <<>>
    ELSE LET k == FindFrom(content, 1, <<NL>>) IN
         IF k = 0 THEN <<StripCR(content)>>
         ELSE <<StripCR(SubSeq(content, 1, k - 1))>> \o Lines(From(content, k + 1))

\* u8's Display
RECURSIVE NumToStr(_)
NumToStr(n) ==
    IF n < 10 THEN <<DigitChar(n)>>
    ELSE NumToStr(n \div 10) \o <<DigitChar(n % 10)>>

RECURSIVE DigitsValue(_)
DigitsValue(ds) ==
    IF Len(ds) = 0 THEN 0
    ELSE 10 * DigitsValue(SubSeq(ds, 1, Len(ds) - 1)) + DigitVal(ds[Len(ds)])


U8Max == 255

\* ParseU8OrZero with a slip: a number that does not fit is cut to its low
\* eight bits
ParseU8Wrapping(ds) == DigitsValue(ds) % (U8Max + 1)

\* str::parse::<u8>() followed by unwrap_or(0): a number that does not fit is 0
ParseU8OrZero(ds) == IF DigitsValue(ds) <= U8Max THEN DigitsValue(ds) ELSE 0

(***************************************************************************)
(* The data model (types.rs).  An Option is a record with a flag.          *)
(***************************************************************************)
None == [some |-> FALSE, val |-> <<>>]
Some(v) == [some |-> TRUE, val |-> v]

LegendEntry(tag, definition) == [tag |-> tag, definition |-> definition]

FileEntry(path, what, why, exports, touch) ==
    [path |-> path, description |-> [what |-> what, why |-> why],
     exports |-> exports, touch |-> touch]

Layer(number, name, entries) == [number |-> number, name |-> name, entries |-> entries]

SemmapFile(project_name, purpose, legend, layers) ==
    [project_name |-> project_name, purpose |-> purpose,
     legend |-> legend, layers |-> layers]

(***************************************************************************)
(* The regular expressions of parser.rs.  Each Regex::new is given a valid *)
(* pattern, so it succeeds and the .or_else alternative is never compiled. *)
(* A match is returned as a record [matched, ...captures].                 *)
(***************************************************************************)
\* optional whitespace, then a group of one or more characters, applied to a
\* non-empty rest r: the greedy whitespace gives one character back when r is
\* all whitespace
SpacesThenRest(r) ==
    IF SpaceRun(r, 1) < Len(r) THEN From(r, SpaceRun(r, 1) + 1) ELSE <<r[Len(r)]>>

\* the tail of the title pattern (optional whitespace, an em dash or a hyphen,
\* optional whitespace, "Semantic Map") matches line at position t
TitleTail(line, t) ==
    LET d == t + SpaceRun(line, t) IN
    /\ d <= Len(line)
    /\ IsDash(line[d])
    /\ StartsWithAt(line, d + 1 + SpaceRun(line, d + 1), SemanticMap)

\* the lazy name group starting at g: the least length k >= 1 after which the
\* tail matches, 0 if there is none
RECURSIVE TitleLazy(_, _, _)
TitleLazy(line, g, k) ==
    IF g + k - 1 > Len(line) THEN 0
    ELSE IF TitleTail(line, g + k) THEN k
    ELSE TitleLazy(line, g, k + 1)

\* the greedy whitespace after the '#': s characters, the longest first
RECURSIVE TitleGreedy(_, _)
TitleGreedy(line, s) ==
    IF s < 1 THEN [matched |-> FALSE, name |-> <<>>]
    ELSE LET k == TitleLazy(line, 2 + s, 1) IN
         IF k > 0 THEN [matched |-> TRUE, name |-> SubSeq(line, 2 + s, 1 + s + k)]
         ELSE TitleGreedy(line, s - 1)

\* TITLE_RE, parser.rs line 14: anchored at the start of the line
title_regex(line) ==
    IF Len(line) >= 1 /\ line[1] = "#" THEN TitleGreedy(line, SpaceRun(line, 2))
    ELSE [matched |-> FALSE, name |-> <<>>]

\* PURPOSE_RE, parser.rs line 22: the bold label anywhere in the line, then
\* optional whitespace and a group of one or more characters
purpose_regex(line) ==
    LET i == FindFrom(line, 1, BoldPurpose) IN
    IF i > 0 /\ i + Len(BoldPurpose) <= Len(line)
    THEN [matched |-> TRUE, text |-> SpacesThenRest(From(line, i + Len(BoldPurpose)))]
    ELSE [matched |-> FALSE, text |-> <<>>]

\* LEGEND_RE, parser.rs line 30, tried at position i, then at the positions
\* after it: a backtick, a bracketed run of capitals, a backtick, whitespace and
\* a group of one or more characters
RECURSIVE LegendFrom(_, _)
LegendFrom(line, i) ==
    IF i > Len(line) THEN [matched |-> FALSE, tag |-> <<>>, definition |-> <<>>]
    ELSE LET u == UpperRun(line, i + 2)
             c == i + 2 + u
             w == SpaceRun(line, c + 2)
             r == From(line, c + 2 + w)
         IN  IF /\ StartsWithAt(line, i, <<Backtick, "[">>)
                /\ u >= 1
                /\ StartsWithAt(line, c, <<"]", Backtick>>)
                /\ w >= 1
                /\ (Len(r) >= 1 \/ w >= 2)
             THEN [matched |-> TRUE, tag |-> SubSeq(line, i + 2, c - 1),
                   definition |-> IF Len(r) >= 1 THEN r ELSE <<line[Len(line)]>>]
             ELSE LegendFrom(line, i + 1)

legend_regex(line) == LegendFrom(line, 1)

\* LAYER_RE, parser.rs line 38, anchored at the start of the line
layer_regex(line) ==
    LET l == 3 + SpaceRun(line, 3)
        n == l + Len(LayerWord) + SpaceRun(line, l + Len(LayerWord))
        e == n + DigitRun(line, n)
        d == e + SpaceRun(line, e)
    IN  IF /\ StartsWith(line, <<"#", "#">>)
           /\ SpaceRun(line, 3) >= 1
           /\ StartsWithAt(line, l, LayerWord)
           /\ SpaceRun(line, l + Len(LayerWord)) >= 1
           /\ DigitRun(line, n) >= 1
           /\ d + 1 <= Len(line)
           /\ IsDash(line[d])
        THEN [matched |-> TRUE, number |-> SubSeq(line, n, e - 1),
              name |-> SpacesThenRest(From(line, d + 1))]
        ELSE [matched |-> FALSE, number |-> <<>>, name |-> <<>>]

\* PATH_RE, parser.rs line 46: anchored at the start of the line only
path_regex(line) ==
    LET k == FindFrom(line, 2, <<Backtick>>) IN
    IF Len(line) >= 1 /\ line[1] = Backtick /\ k >= 3
    THEN [matched |-> TRUE, path |-> SubSeq(line, 2, k - 1)]
    ELSE [matched |-> FALSE, path |-> <<>>]

(***************************************************************************)
(* parser.rs.  lines is the sequence of lines and idx the shared cursor,   *)
(* the number of lines already consumed: the current line is lines[idx+1]. *)
(* Every phase returns its value together with the cursor it leaves.       *)
(***************************************************************************)
\* split_description with a slip: the text is split at the last ". "
split_description_at_last(desc) ==
    LET hits == {k \in 1..(Len(desc) - 1) : desc[k] = "." /\ desc[k + 1] = " "}
        k == IF hits = {} THEN 0 ELSE CHOOSE i \in hits : \A j \in hits : j <= i
    IN  IF k > 0 THEN [what |-> SubSeq(desc, 1, k - 1) \o <<".">>, why |-> From(desc, k + 2)]
        ELSE [what |-> desc, why |-> <<>>]

split_description(desc) ==
    LET k == FindFrom(desc, 1, <<".", " ">>) IN
    IF k > 0 THEN [what |-> SubSeq(desc, 1, k - 1) \o <<".">>, why |-> From(desc, k + 2)]
    ELSE [what |-> desc, why |-> <<>>]

\* rest.trim().split(',').map(|s| s.trim())
RECURSIVE TrimEach(_)
TrimEach(parts) ==
    IF Len(parts) = 0 THEN <<>> ELSE <<Trim(parts[1])>> \o TrimEach(Tail(parts))

ExportsList(rest) == TrimEach(Split(Trim(rest), ","))

\* the loop of parse_file_entry
RECURSIVE FileEntryLoop(_, _, _, _, _)
FileEntryLoop(lines, idx, desc_parts, exports, touch) ==
    IF idx >= Len(lines)
    THEN [desc_parts |-> desc_parts, exports |-> exports, touch |-> touch, idx |-> idx]
    ELSE LET trimmed == Trim(lines[idx + 1]) IN
         IF \/ Len(trimmed) = 0
            \/ StartsWith(trimmed, <<Backtick>>)
            \/ StartsWith(trimmed, <<"#", "#", " ">>)
         THEN [desc_parts |-> desc_parts, exports |-> exports, touch |-> touch, idx |-> idx]
         ELSE IF StartsWith(trimmed, ExportsMarker)
         THEN FileEntryLoop(lines, idx + 1, desc_parts,
                            Some(ExportsList(From(trimmed, Len(ExportsMarker) + 1))), touch)
         ELSE IF StartsWith(trimmed, TouchMarker)
         THEN FileEntryLoop(lines, idx + 1, desc_parts, exports,
                            Some(Trim(From(trimmed, Len(TouchMarker) + 1))))
         ELSE FileEntryLoop(lines, idx + 1, Append(desc_parts, trimmed), exports, touch)

parse_file_entry(path, lines, idx) ==
    LET body == FileEntryLoop(lines, idx, <<>>, None, None)
        d == split_description(Join(body.desc_parts, <<" ">>))
    IN  [entry |-> FileEntry(path, d.what, d.why, body.exports, body.touch),
         idx |-> body.idx]

RECURSIVE LayerEntriesLoop(_, _, _)
LayerEntriesLoop(lines, idx, entries) ==
    IF idx >= Len(lines) THEN [entries |-> entries, idx |-> idx]
    ELSE LET line == lines[idx + 1] IN
         IF StartsWith(line, LayerHeader) \/ StartsWith(line, <<"#", " ">>)
         THEN [entries |-> entries, idx |-> idx]
         ELSE IF path_regex(line).matched
         THEN LET r == parse_file_entry(path_regex(line).path, lines, idx + 1) IN
              LayerEntriesLoop(lines, r.idx, Append(entries, r.entry))
         ELSE LayerEntriesLoop(lines, idx + 1, entries)

parse_layer_entries(lines, idx) == LayerEntriesLoop(lines, idx, <<>>)

RECURSIVE LayersLoop(_, _, _)
LayersLoop(lines, idx, layers) ==
    IF idx >= Len(lines) THEN [layers |-> layers, idx |-> idx]
    ELSE LET caps == layer_regex(lines[idx + 1]) IN
         IF caps.matched
         THEN LET r == parse_layer_entries(lines, idx + 1) IN
              LayersLoop(lines, r.idx,
                         Append(layers, Layer(ParseU8OrZero(caps.number), Trim(caps.name),
                                              r.entries)))
         ELSE LayersLoop(lines, idx + 1, layers)

parse_layers(lines, idx) == LayersLoop(lines, idx, <<>>)

RECURSIVE LegendLoop(_, _, _)
LegendLoop(lines, idx, legend) ==
    IF idx >= Len(lines) THEN [legend |-> legend, idx |-> idx]
    ELSE LET line == lines[idx + 1]
             caps == legend_regex(line)
         IN  IF StartsWith(line, LayerHeader) THEN [legend |-> legend, idx |-> idx]
             ELSE IF caps.matched
             THEN LegendLoop(lines, idx + 1,
                             Append(legend, LegendEntry(caps.tag, caps.definition)))
             ELSE LegendLoop(lines, idx + 1, legend)

parse_legend(lines, idx) == LegendLoop(lines, idx, <<>>)

\* HeaderLoop with a slip: a line that is no title clears the name
RECURSIVE HeaderLoopResets(_, _, _, _)
HeaderLoopResets(lines, idx, project_name, purpose) ==
    IF idx >= Len(lines)
    THEN [project_name |-> project_name, purpose |-> purpose, idx |-> idx]
    ELSE LET line == lines[idx + 1]
             name == IF title_regex(line).matched THEN title_regex(line).name ELSE <<>>
             purp == IF purpose_regex(line).matched THEN purpose_regex(line).text
                     ELSE purpose
         IN  IF StartsWith(line, LegendHeader)
             THEN [project_name |-> name, purpose |-> purp, idx |-> idx]
             ELSE HeaderLoopResets(lines, idx + 1, name, purp)

\* the loop of parse_header: the title and the purpose patterns are tried on
\* every line the loop reaches, and the loop leaves at a "## Legend" line
RECURSIVE HeaderLoop(_, _, _, _)
HeaderLoop(lines, idx, project_name, purpose) ==
    IF idx >= Len(lines)
    THEN [project_name |-> project_name, purpose |-> purpose, idx |-> idx]
    ELSE LET line == lines[idx + 1]
             name == IF title_regex(line).matched THEN title_regex(line).name
                     ELSE project_name
             purp == IF purpose_regex(line).matched THEN purpose_regex(line).text
                     ELSE purpose
         IN  IF StartsWith(line, LegendHeader)
             THEN [project_name |-> name, purpose |-> purp, idx |-> idx]
             ELSE HeaderLoop(lines, idx + 1, name, purp)

\* the ParseError of parse_header; the message has an em dash where a hyphen
\* stands here
MissingTitle ==
    [line |-> 1, message |-> "Missing project title (# name - Semantic Map)"]

\* parse_header with a slip: the check for an empty project name is missing
parse_header_lenient(lines, idx) ==
    LET h == HeaderLoop(lines, idx, <<>>, <<>>) IN
    [ok |-> TRUE, project_name |-> h.project_name, purpose |-> h.purpose, idx |-> h.idx]

parse_header(lines, idx) ==
    LET h == HeaderLoop(lines, idx, <<>>, <<>>) IN
    IF Len(h.project_name) = 0
    THEN [ok |-> FALSE, err |-> MissingTitle, idx |-> h.idx]
    ELSE [ok |-> TRUE, project_name |-> h.project_name, purpose |-> h.purpose,
          idx |-> h.idx]

\* parser::parse: Ok(SemmapFile) or Err(SemmapError::Parse(ParseError))
parse(content) ==
    LET lines == Lines(content)
        h == parse_header(lines, 0)
    IN  IF ~h.ok THEN [ok |-> FALSE, err |-> h.err]
        ELSE LET lg == parse_legend(lines, h.idx)
                 ly == parse_layers(lines, lg.idx)
             IN  [ok |-> TRUE,
                  doc |-> SemmapFile(h.project_name, h.purpose, lg.legend, ly.layers)]

(***************************************************************************)
(* parse_entries.rs: the public entry parser.  Its PATH_RE and its         *)
(* split_description are those of parser.rs, character for character; its  *)
(* markers are "Exports:" and "Touch:", without the arrow.                 *)
(***************************************************************************)
BareExportsMarker == <<"E", "x", "p", "o", "r", "t", "s", ":">>
BareTouchMarker == <<"T", "o", "u", "c", "h", ":">>

parse_exports(rest) == TrimEach(Split(Trim(rest), ","))

\* the loop of parse_entries::parse_file_entry
RECURSIVE EntriesFileEntryLoop(_, _, _, _, _)
EntriesFileEntryLoop(lines, idx, desc_parts, exports, touch) ==
    IF idx >= Len(lines)
    THEN [desc_parts |-> desc_parts, exports |-> exports, touch |-> touch, idx |-> idx]
    ELSE LET trimmed == Trim(lines[idx + 1]) IN
         IF \/ Len(trimmed) = 0
            \/ StartsWith(trimmed, <<Backtick>>)
            \/ StartsWith(trimmed, <<"#", "#", " ">>)
         THEN [desc_parts |-> desc_parts, exports |-> exports, touch |-> touch, idx |-> idx]
         ELSE IF StartsWith(trimmed, BareExportsMarker)
         THEN EntriesFileEntryLoop(lines, idx + 1, desc_parts,
                  Some(parse_exports(From(trimmed, Len(BareExportsMarker) + 1))), touch)
         ELSE IF StartsWith(trimmed, BareTouchMarker)
         THEN EntriesFileEntryLoop(lines, idx + 1, desc_parts, exports,
                  Some(Trim(From(trimmed, Len(BareTouchMarker) + 1))))
         ELSE EntriesFileEntryLoop(lines, idx + 1, Append(desc_parts, trimmed), exports, touch)

entries_parse_file_entry(path, lines, idx) ==
    LET body == EntriesFileEntryLoop(lines, idx, <<>>, None, None)
        d == split_description(Join(body.desc_parts, <<" ">>))
    IN  [entry |-> FileEntry(path, d.what, d.why, body.exports, body.touch),
         idx |-> body.idx]

RECURSIVE EntriesLayerEntriesLoop(_, _, _)
EntriesLayerEntriesLoop(lines, idx, entries) ==
    IF idx >= Len(lines) THEN [entries |-> entries, idx |-> idx]
    ELSE LET line == lines[idx + 1] IN
         IF StartsWith(line, LayerHeader) \/ StartsWith(line, <<"#", " ">>)
         THEN [entries |-> entries, idx |-> idx]
         ELSE IF path_regex(line).matched
         THEN LET r == entries_parse_file_entry(path_regex(line).path, lines, idx + 1) IN
              EntriesLayerEntriesLoop(lines, r.idx, Append(entries, r.entry))
         ELSE EntriesLayerEntriesLoop(lines, idx + 1, entries)

\* parse_entries::parse_layer_entries
entries_parse_layer_entries(lines, idx) == EntriesLayerEntriesLoop(lines, idx, <<>>)

(***************************************************************************)
(* formatter.rs                                                            *)
(***************************************************************************)
format_description(desc) ==
    IF Len(desc.why) = 0 THEN desc.what ELSE desc.what \o <<" ">> \o desc.why

write_header(semmap) ==
    <<"#", " ">> \o semmap.project_name \o <<" ", EmDash, " ">> \o SemanticMap \o <<NL, NL>>
    \o (IF Len(semmap.purpose) # 0
        THEN BoldPurpose \o <<" ">> \o semmap.purpose \o <<NL, NL>>
        ELSE <<>>)

RECURSIVE WriteLegendEntries(_)
WriteLegendEntries(legend) ==
    IF Len(legend) = 0 THEN <<>>
    ELSE <<Backtick, "[">> \o legend[1].tag \o <<"]", Backtick, " ">>
         \o legend[1].definition \o <<NL, NL>> \o WriteLegendEntries(Tail(legend))

write_legend(semmap) ==
    IF Len(semmap.legend) = 0 THEN <<>>
    ELSE LegendHeader \o <<NL, NL>> \o WriteLegendEntries(semmap.legend)

\* WriteEntry with a slip: the Exports line is written for an empty list too
WriteEntryAnyExports(entry) ==
    <<Backtick>> \o entry.path \o <<Backtick, NL>>
    \o format_description(entry.description) \o <<NL>>
    \o (IF entry.exports.some
        THEN ExportsMarker \o <<" ">> \o Join(entry.exports.val, <<",", " ">>) \o <<NL>>
        ELSE <<>>)
    \o (IF entry.touch.some
        THEN TouchMarker \o <<" ">> \o entry.touch.val \o <<NL>>
        ELSE <<>>)
    \o <<NL>>

WriteEntry(entry) ==
    <<Backtick>> \o entry.path \o <<Backtick, NL>>
    \o format_description(entry.description) \o <<NL>>
    \o (IF entry.exports.some /\ Len(entry.exports.val) # 0
        THEN ExportsMarker \o <<" ">> \o Join(entry.exports.val, <<",", " ">>) \o <<NL>>
        ELSE <<>>)
    \o (IF entry.touch.some
        THEN TouchMarker \o <<" ">> \o entry.touch.val \o <<NL>>
        ELSE <<>>)
    \o <<NL>>

RECURSIVE WriteEntries(_)
WriteEntries(entries) ==
    IF Len(entries) = 0 THEN <<>>
    ELSE WriteEntry(entries[1]) \o WriteEntries(Tail(entries))

RECURSIVE write_layers(_)
write_layers(layers) ==
    IF Len(layers) = 0 THEN <<>>
    ELSE LayerHeader \o <<" ">> \o NumToStr(layers[1].number) \o <<" ", EmDash, " ">>
         \o layers[1].name \o <<NL, NL>>
         \o WriteEntries(layers[1].entries) \o write_layers(Tail(layers))

to_markdown(semmap) ==
    write_header(semmap) \o write_legend(semmap) \o write_layers(semmap.layers)

(***************************************************************************)
(* Ordering of strings: String's Ord compares the UTF-8 bytes, which for   *)
(* the characters below is their order in this listing.                    *)
(***************************************************************************)
CharOrder ==
    <<TAB, NL, CR, " ", "!", "#", "*", ",", "-", ".", "/",
      "0", "1", "2", "3", "4", "5", "6", "7", "8", "9", ":",
      "A", "B", "C", "D", "E", "F", "G", "H", "I", "J", "K", "L", "M",
      "N", "O", "P", "Q", "R", "S", "T", "U", "V", "W", "X", "Y", "Z",
      "[", "]", "_", Backtick,
      "a", "b", "c", "d", "e", "f", "g", "h", "i", "j", "k", "l", "m",
      "n", "o", "p", "q", "r", "s", "t", "u", "v", "w", "x", "y", "z",
      EmDash, Arrow>>

CharCode(c) == CHOOSE i \in 1..Len(CharOrder) : CharOrder[i] = c

\* a <= b for strings
RECURSIVE StrLeq(_, _)
StrLeq(a, b) ==
    IF Len(a) = 0 THEN TRUE
    ELSE IF Len(b) = 0 THEN FALSE
    ELSE IF a[1] = b[1] THEN StrLeq(Tail(a), Tail(b))
    ELSE CharCode(a[1]) < CharCode(b[1])

\* the sequences that list every element of the set S exactly once
Orderings(S) ==
    {q \in [1..Cardinality(S) -> S] : \A i, j \in 1..Cardinality(S) : q[i] = q[j] => i = j}

(***************************************************************************)
(* path_utils.rs                                                           *)
(***************************************************************************)
prefix_path(prefix, path) ==
    IF Len(prefix) = 0 THEN path ELSE prefix \o <<"/">> \o path

\* strip_prefix_for_lookup with a slip: the prefix is stripped and the slash
\* after it is left
strip_prefix_keeping_slash(prefix, path) ==
    IF Len(prefix) = 0 THEN path
    ELSE IF StartsWith(path, prefix \o <<"/">>) THEN From(path, Len(prefix) + 1)
    ELSE path

strip_prefix_for_lookup(prefix, path) ==
    IF Len(prefix) = 0 THEN path
    ELSE IF StartsWith(path, prefix \o <<"/">>) THEN From(path, Len(prefix) + 2)
    ELSE path

(***************************************************************************)
(* The queries of types.rs.                                                *)
(***************************************************************************)
\* every entry with the number of its layer, in layer-then-entry order
RECURSIVE Flat(_)
Flat(layers) ==
    IF Len(layers) = 0 THEN <<>>
    ELSE [i \in 1..Len(layers[1].entries) |->
             [number |-> layers[1].number, entry |-> layers[1].entries[i]]]
         \o Flat(Tail(layers))

all_paths(semmap) ==
    LET f == Flat(semmap.layers) IN [i \in 1..Len(f) |-> f[i].entry.path]

PathSet(semmap) == {all_paths(semmap)[i] : i \in 1..Len(all_paths(semmap))}

find_entry(semmap, path) ==
    LET f == Flat(semmap.layers)
        hits == {i \in 1..Len(f) : f[i].entry.path = path}
    IN  IF hits = {} THEN None
        ELSE Some(f[CHOOSE i \in hits : \A j \in hits : i <= j].entry)

\* the HashMap built by inserting in layer-then-entry order: a later insert
\* replaces an earlier one
LastIndex(f, path) ==
    LET hits == {i \in 1..Len(f) : f[i].entry.path = path} IN
    IF hits = {} THEN 0 ELSE CHOOSE i \in hits : \A j \in hits : j <= i

\* path_to_layer with a slip: the first layer that has the path wins
path_to_layer_first(semmap) ==
    LET f == Flat(semmap.layers) IN
    [p \in PathSet(semmap) |->
        f[CHOOSE i \in 1..Len(f) :
            f[i].entry.path = p /\ \A j \in 1..(i - 1) : f[j].entry.path # p].number]

path_to_layer(semmap) ==
    LET f == Flat(semmap.layers) IN
    [p \in PathSet(semmap) |-> f[LastIndex(f, p)].number]

(***************************************************************************)
(* commands/update_helpers.rs                                              *)
(***************************************************************************)
\* Vec::retain
RECURSIVE RetainEntries(_, _)
RetainEntries(entries, removed) ==
    IF Len(entries) = 0 THEN <<>>
    ELSE (IF entries[1].path \in removed THEN <<>> ELSE <<entries[1]>>)
         \o RetainEntries(Tail(entries), removed)

RECURSIVE RetainNonEmpty(_)
RetainNonEmpty(layers) ==
    IF Len(layers) = 0 THEN <<>>
    ELSE (IF Len(layers[1].entries) = 0 THEN <<>> ELSE <<layers[1]>>)
         \o RetainNonEmpty(Tail(layers))

\* removed is used as a set only (removed_set)
\* remove_deleted_entries with a slip: a layer left without entries stays
remove_deleted_entries_keeping_layers(semmap, removed) ==
    [semmap EXCEPT !.layers =
        [i \in 1..Len(semmap.layers) |->
            [semmap.layers[i] EXCEPT !.entries = RetainEntries(@, removed)]]]

remove_deleted_entries(semmap, removed) ==
    [semmap EXCEPT !.layers =
        RetainNonEmpty([i \in 1..Len(semmap.layers) |->
            [semmap.layers[i] EXCEPT !.entries = RetainEntries(@, removed)]])]

\* Staged with a slip: one entry is staged for every occurrence of the path
\* in fresh, each for the layer of that occurrence
RECURSIVE StagedEveryOccurrence(_, _, _)
StagedEveryOccurrence(added, fresh, prefix) ==
    IF Len(added) = 0 THEN <<>>
    ELSE LET lookup == strip_prefix_for_lookup(prefix, added[1])
             f == Flat(fresh.layers)
             hits == {i \in 1..Len(f) : f[i].entry.path = lookup}
             nth(k) == CHOOSE i \in hits : Cardinality({j \in hits : j < i}) = k - 1
         IN  [k \in 1..Cardinality(hits) |->
                 [number |-> f[nth(k)].number,
                  entry |-> [f[nth(k)].entry EXCEPT !.path = added[1]]]]
             \o StagedEveryOccurrence(Tail(added), fresh, prefix)

\* Staged with a slip: a path with no entry in fresh is staged for the default
\* layer with an entry of its own
RECURSIVE StagedWithDefault(_, _, _)
StagedWithDefault(added, fresh, prefix) ==
    IF Len(added) = 0 THEN <<>>
    ELSE LET lookup == strip_prefix_for_lookup(prefix, added[1])
             f == Flat(fresh.layers)
             k == LastIndex(f, lookup)
         IN  (IF k = 0
              THEN <<[number |-> 2,
                      entry |-> [path |-> added[1], exports |-> [some |-> FALSE, val |-> <<>>],
                                 touch |-> [some |-> FALSE, val |-> <<>>],
                                 description |-> [what |-> <<>>, why |-> <<>>]]]>>
              ELSE <<[number |-> path_to_layer(fresh)[lookup],
                      entry |-> [f[k].entry EXCEPT !.path = added[1]]]>>)
             \o StagedWithDefault(Tail(added), fresh, prefix)

\* the entries staged for insertion, in the order of added: a path with no
\* entry in fresh is skipped
RECURSIVE Staged(_, _, _)
Staged(added, fresh, prefix) ==
    IF Len(added) = 0 THEN <<>>
    ELSE LET lookup == strip_prefix_for_lookup(prefix, added[1])
             f == Flat(fresh.layers)
             k == LastIndex(f, lookup)
         IN  (IF k = 0 THEN <<>>
              ELSE <<[number |-> path_to_layer(fresh)[lookup],
                      entry |-> [f[k].entry EXCEPT !.path = added[1]]]>>)
             \o Staged(Tail(added), fresh, prefix)

\* by_layer[num]
RECURSIVE Group(_, _)
Group(staged, num) ==
    IF Len(staged) = 0 THEN <<>>
    ELSE (IF staged[1].number = num THEN <<staged[1].entry>> ELSE <<>>)
         \o Group(Tail(staged), num)

GroupKeys(staged) == {staged[i].number : i \in 1..Len(staged)}

\* layer_idx: the index of the last layer with that number, 0 if there is none
LayerIdx(layers, num) ==
    LET hits == {i \in 1..Len(layers) : layers[i].number = num} IN
    IF hits = {} THEN 0 ELSE CHOOSE i \in hits : \A j \in hits : j <= i

DefaultLayerName(num) == LayerWord \o <<" ">> \o NumToStr(num)

\* InsertGroups with a slip: a new layer is pushed for every group, also when
\* a layer with that number exists
RECURSIVE InsertGroupsAlwaysNew(_, _, _, _)
InsertGroupsAlwaysNew(layers, original, staged, order) ==
    IF Len(order) = 0 THEN layers
    ELSE InsertGroupsAlwaysNew(
             Append(layers, Layer(order[1], DefaultLayerName(order[1]),
                                  Group(staged, order[1]))),
             original, staged, Tail(order))

\* the insertion loop over by_layer, taken in the order given; layer_idx was
\* built from the layers before the loop
RECURSIVE InsertGroups(_, _, _, _)
InsertGroups(layers, original, staged, order) ==
    IF Len(order) = 0 THEN layers
    ELSE LET num == order[1]
             idx == LayerIdx(original, num)
         IN  InsertGroups(
                 IF idx > 0
                 THEN [layers EXCEPT ![idx].entries = @ \o Group(staged, num)]
                 ELSE Append(layers, Layer(num, DefaultLayerName(num), Group(staged, num))),
                 original, staged, Tail(order))

\* stable sorts (sort_by_key, sort_by): an element goes after the ones that
\* do not compare greater
RECURSIVE InsertLayer(_, _)
InsertLayer(sorted, l) ==
    IF Len(sorted) = 0 THEN <<l>>
    ELSE IF sorted[1].number <= l.number THEN <<sorted[1]>> \o InsertLayer(Tail(sorted), l)
    ELSE <<l>> \o sorted

RECURSIVE SortLayers(_)
SortLayers(layers) ==
    IF Len(layers) = 0 THEN <<>>
    ELSE InsertLayer(SortLayers(SubSeq(layers, 1, Len(layers) - 1)), layers[Len(layers)])

RECURSIVE InsertEntry(_, _)
InsertEntry(sorted, e) ==
    IF Len(sorted) = 0 THEN <<e>>
    ELSE IF StrLeq(sorted[1].path, e.path) THEN <<sorted[1]>> \o InsertEntry(Tail(sorted), e)
    ELSE <<e>> \o sorted

RECURSIVE SortEntries(_)
SortEntries(entries) ==
    IF Len(entries) = 0 THEN <<>>
    ELSE InsertEntry(SortEntries(SubSeq(entries, 1, Len(entries) - 1)), entries[Len(entries)])

\* add_new_entries with a slip: the entries that were already there are
\* refreshed from the fresh document
add_new_entries_refreshing(semmap, added, fresh, prefix, order) ==
    LET staged == Staged(added, fresh, prefix)
        inserted == InsertGroups(semmap.layers, semmap.layers, staged, order)
        sorted == SortLayers(inserted)
        refresh(e) ==
            LET k == LastIndex(Flat(fresh.layers), strip_prefix_for_lookup(prefix, e.path))
            IN  IF k = 0 THEN e ELSE [Flat(fresh.layers)[k].entry EXCEPT !.path = e.path]
    IN  [semmap EXCEPT !.layers =
            [i \in 1..Len(sorted) |->
                [sorted[i] EXCEPT !.entries =
                    SortEntries([j \in 1..Len(@) |-> refresh(@[j])])]]]

\* add_new_entries with a slip: the paths the document has already are staged
\* again with the added ones, for the layers fresh has them in
add_new_entries_restaging(semmap, added, fresh, prefix, order) ==
    LET staged == Staged(all_paths(semmap) \o added, fresh, prefix)
        inserted == InsertGroups(semmap.layers, semmap.layers, staged, order)
        sorted == SortLayers(inserted)
    IN  [semmap EXCEPT !.layers =
            [i \in 1..Len(sorted) |-> [sorted[i] EXCEPT !.entries = SortEntries(@)]]]

\* add_new_entries with a slip: the legend is taken over from fresh
add_new_entries_with_legend(semmap, added, fresh, prefix, order) ==
    LET staged == Staged(added, fresh, prefix)
        inserted == InsertGroups(semmap.layers, semmap.layers, staged, order)
        sorted == SortLayers(inserted)
    IN  [semmap EXCEPT !.legend = fresh.legend,
                       !.layers =
            [i \in 1..Len(sorted) |-> [sorted[i] EXCEPT !.entries = SortEntries(@)]]]

\* order is the order in which the HashMap by_layer is iterated
add_new_entries(semmap, added, fresh, prefix, order) ==
    LET staged == Staged(added, fresh, prefix)
        inserted == InsertGroups(semmap.layers, semmap.layers, staged, order)
        sorted == SortLayers(inserted)
    IN  [semmap EXCEPT !.layers =
            [i \in 1..Len(sorted) |-> [sorted[i] EXCEPT !.entries = SortEntries(@)]]]

(***************************************************************************)
(* commands.rs: the update command, after the file was read and parsed.    *)
(***************************************************************************)
DefaultLayer == 2

guess_layer_for_new(semmap) ==
    IF Len(semmap.layers) = 0 THEN DefaultLayer ELSE semmap.layers[1].number

\* Iterator::position
Position(layers, num) ==
    LET hits == {i \in 1..Len(layers) : layers[i].number = num} IN
    IF hits = {} THEN 0 ELSE CHOOSE i \in hits : \A j \in hits : i <= j

\* the loop "for path in &added" of update
RECURSIVE PushAdded(_, _, _, _)
PushAdded(layers, layer_idx, added, fresh) ==
    IF Len(added) = 0 THEN layers
    ELSE LET entry == find_entry(fresh, added[1]) IN
         PushAdded(IF entry.some /\ layer_idx > 0
                   THEN [layers EXCEPT ![layer_idx].entries = Append(@, entry.val)]
                   ELSE layers,
                   layer_idx, Tail(added), fresh)

\* update, from the two path sets to the document handed to to_markdown;
\* added is the Vec collected from the HashSet difference, in its order
UpdateDocument(semmap, fresh, added) ==
    LET removed == PathSet(semmap) \ PathSet(fresh)
        layer_idx == Position(semmap.layers, guess_layer_for_new(semmap))
        pushed == PushAdded(semmap.layers, layer_idx, added, fresh)
    IN  [semmap EXCEPT !.layers =
            [i \in 1..Len(pushed) |->
                [pushed[i] EXCEPT !.entries = RetainEntries(@, removed)]]]

(***************************************************************************)
(* generator.rs: the layers and the legend of a generated document.        *)
(***************************************************************************)
LayerNames ==
    <<<<"C", "o", "n", "f", "i", "g">>, <<"C", "o", "r", "e">>,
      <<"D", "o", "m", "a", "i", "n">>, <<"U", "t", "i", "l", "i", "t", "i", "e", "s">>,
      <<"T", "e", "s", "t", "s">>>>

\* classified maps each of the numbers 0..4 to the entries of that layer
RECURSIVE BuildFrom(_, _)
BuildFrom(classified, num) ==
    IF num >= Len(LayerNames) THEN <<>>
    ELSE (IF Len(classified[num]) # 0
          THEN <<Layer(num, LayerNames[num + 1], classified[num])>>
          ELSE <<>>)
         \o BuildFrom(classified, num + 1)

build_layers(classified) == BuildFrom(classified, 0)

default_legend ==
    <<LegendEntry(<<"E", "N", "T", "R", "Y">>,
                  <<"A", "p", "p", "l", "i", "c", "a", "t", "i", "o", "n", " ",
                    "e", "n", "t", "r", "y", " ", "p", "o", "i", "n", "t">>),
      LegendEntry(<<"C", "O", "R", "E">>,
                  <<"C", "o", "r", "e", " ", "b", "u", "s", "i", "n", "e", "s", "s", " ",
                    "l", "o", "g", "i", "c">>),
      LegendEntry(<<"T", "Y", "P", "E">>,
                  <<"D", "a", "t", "a", " ", "s", "t", "r", "u", "c", "t", "u", "r", "e", "s",
                    " ", "a", "n", "d", " ", "t", "y", "p", "e", "s">>),
      LegendEntry(<<"U", "T", "I", "L">>,
                  <<"U", "t", "i", "l", "i", "t", "y", " ", "f", "u", "n", "c", "t", "i", "o",
                    "n", "s">>)>>

\* generate, given the classification of the files found under the root; update
\* passes the parsed project name, which is not empty
generate(project_name, purpose, classified) ==
    SemmapFile(project_name, purpose, default_legend, build_layers(classified))

(***************************************************************************)
(* Bounds and inputs.                                                      *)
(***************************************************************************)
MaxLayers == 2
MaxEntries == 2
MaxRuns == 2

\* the files under the scan root, relative to it
FileNames == {<<"a">>, <<"b">>}
\* a file the document lists and the scan no longer finds
GoneFiles == {<<"z">>}
Prefixes == {<<>>, <<"p">>}
LayerNumbers == {0, 1}

\* an entry as a person edited it, and an entry as the classifier describes it
EditedEntry(path) ==
    FileEntry(path, <<"C", ".">>, <<"Y", ".">>, None, Some(<<"t">>))
FreshEntry(path) ==
    FileEntry(path, <<"G", ".">>, <<>>, Some(<<<<"E">>>>), None)

\* a second entry for a path, told from the first by its description
SecondEntry(path) ==
    FileEntry(path, <<"H", ".">>, <<>>, None, None)

SeqsUpTo(S, n) == UNION {[1..k -> S] : k \in 0..n}

RECURSIVE TotalEntries(_)
TotalEntries(layers) ==
    IF Len(layers) = 0 THEN 0 ELSE Len(layers[1].entries) + TotalEntries(Tail(layers))

\* the layer sequences of at most MaxLayers layers and MaxEntries entries,
\* with repeated numbers, repeated paths, empty layers and any order
LayerSeqs(paths, name) ==
    LET shapes == SeqsUpTo(LayerNumbers \X SeqsUpTo(paths, MaxEntries), MaxLayers)
        build(sh) == [i \in 1..Len(sh) |->
                        Layer(sh[i][1], name,
                              [j \in 1..Len(sh[i][2]) |-> EditedEntry(sh[i][2][j])])]
    IN  {build(sh) : sh \in {x \in shapes : TotalEntries(build(x)) <= MaxEntries}}

ExistingLegend == <<LegendEntry(<<"T">>, <<"d">>)>>

\* the documents a reconciliation may find, their paths in the document's
\* namespace
ExistingDocs(files, prefix, legend) ==
    {SemmapFile(<<"P">>, <<>>, legend, ls) :
        ls \in LayerSeqs({prefix_path(prefix, f) : f \in files}, <<"N">>)}

\* the classifications of the files present: which are there, the layer of
\* each, and the order in which the walk met them
Classifications ==
    {[num \in 0..(Len(LayerNames) - 1) |->
        LET here == {i \in 1..Len(walk) : layer[walk[i]] = num}
            pick(k) == CHOOSE i \in here : Cardinality({j \in here : j < i}) = k - 1
        IN  [k \in 1..Cardinality(here) |-> FreshEntry(walk[pick(k)])]] :
        walk \in UNION {Orderings(fs) : fs \in SUBSET FileNames},
        layer \in [FileNames -> LayerNumbers]}

\* documents no scan produces: a path in two layers, and layers out of order
InconsistentFresh ==
    {SemmapFile(<<"P">>, <<>>, default_legend, ls) : ls \in
        {<<Layer(0, LayerNames[1], <<FreshEntry(<<"a">>)>>),
           Layer(1, LayerNames[2], <<FreshEntry(<<"a">>)>>)>>,
         <<Layer(1, LayerNames[2], <<FreshEntry(<<"b">>)>>),
           Layer(0, LayerNames[1], <<FreshEntry(<<"a">>), FreshEntry(<<"a">>)>>)>>,
         <<Layer(1, LayerNames[2], <<FreshEntry(<<"a">>)>>),
           Layer(0, LayerNames[1], <<SecondEntry(<<"a">>), FreshEntry(<<"b">>)>>)>>}}

GeneratedDocs == {generate(<<"P">>, <<>>, c) : c \in Classifications}

FreshDocs == GeneratedDocs \cup InconsistentFresh

EmptyDoc == SemmapFile(<<>>, <<>>, <<>>, <<>>)
NoResult == [ok |-> FALSE, err |-> [line |-> 0, message |-> "not parsed"]]

(***************************************************************************)
(* The state.                                                              *)
(***************************************************************************)
VARIABLES
    existing,     \* the document before the first reconciliation run
    fresh,        \* the document the classifier produced
    path_prefix,  \* the scan root relative to the document's directory
    semmap,       \* the document the reconciliation helpers mutate
    before,       \* semmap when the current run started
    added,        \* the paths to insert, in the order they are handed over
    removed,      \* the paths to delete
    pc,           \* where the reconciliation run stands
    runs,         \* the number of finished reconciliation runs
    file,         \* the text of the document file
    previous,     \* the text of the file before the last update
    updates,      \* the number of finished runs of the update command
    doc,          \* the document handed to the serializer
    origin,       \* who wrote the text: the serializer or a person
    parsed,       \* what parse returned for the text
    edges,        \* the edges of the dependency map
    violations,   \* what check_layer_violations returned
    start,        \* the cursor an entry parser is started at
    inner,        \* what parser.rs parse_layer_entries returned from there
    public,       \* what parse_entries.rs parse_layer_entries returned from there
    cursor,       \* idx of parse while it runs: the number of lines consumed
    building      \* the locals of parse and of its phases while it runs

engineVars == <<existing, path_prefix, semmap, before, added, removed, pc, runs>>
updateVars == <<previous, updates>>
textVars == <<doc, origin, parsed>>
depsVars == <<edges, violations>>
entryVars == <<start, inner, public>>
stepVars == <<cursor, building>>

vars == <<existing, fresh, path_prefix, semmap, before, added, removed, pc, runs,
          file, previous, updates, doc, origin, parsed, edges, violations,
          start, inner, public, cursor, building>>

EngineIdle ==
    /\ existing = EmptyDoc
    /\ semmap = EmptyDoc
    /\ before = EmptyDoc
    /\ added = <<>>
    /\ removed = {}
    /\ pc = "idle"
    /\ runs = 0

UpdateIdle ==
    /\ previous = <<>>
    /\ updates = 0

TextIdle ==
    /\ doc = EmptyDoc
    /\ origin = "none"
    /\ parsed = NoResult

DepsIdle ==
    /\ edges = <<>>
    /\ violations = <<>>

NoEntries == [entries |-> <<>>, idx |-> 0]

EntryIdle ==
    /\ start = 0
    /\ inner = NoEntries
    /\ public = NoEntries

\* the locals as parse and its phases initialize them
Locals ==
    [lines |-> <<>>,
     project_name |-> <<>>, purpose |-> <<>>, legend |-> <<>>, layers |-> <<>>,
     num |-> 0, name |-> <<>>, entries |-> <<>>,
     path |-> <<>>, desc_parts |-> <<>>, exports |-> None, touch |-> None]

StepIdle ==
    /\ cursor = 0
    /\ building = Locals

(***************************************************************************)
(* Reconciliation: the two path sets are compared in the document's        *)
(* namespace, then the deleted entries are removed, then the new ones are  *)
(* inserted and the document is sorted.                                    *)
(***************************************************************************)
Init ==
    /\ path_prefix \in Prefixes
    /\ existing \in ExistingDocs(FileNames \cup GoneFiles, path_prefix, ExistingLegend)
    /\ fresh \in FreshDocs
    /\ semmap = existing
    /\ before = existing
    /\ added = <<>>
    /\ removed = {}
    /\ pc = "start"
    /\ runs = 0
    /\ file = <<>>
    /\ UpdateIdle
    /\ TextIdle
    /\ DepsIdle
    /\ EntryIdle
    /\ StepIdle

FreshPaths == {prefix_path(path_prefix, x) : x \in PathSet(fresh)}

ComputeDiff ==
    /\ pc = "start"
    /\ runs < MaxRuns
    /\ added' \in Orderings(FreshPaths \ PathSet(semmap))
    /\ removed' = PathSet(semmap) \ FreshPaths
    /\ before' = semmap
    /\ pc' = "diffed"
    /\ UNCHANGED <<existing, fresh, path_prefix, semmap, runs, file>>
    /\ UNCHANGED <<updateVars, textVars, depsVars, entryVars, stepVars>>

RemoveDeletedEntries ==
    /\ pc = "diffed"
    /\ semmap' = remove_deleted_entries(semmap, removed)
    /\ pc' = "removed"
    /\ UNCHANGED <<existing, fresh, path_prefix, before, added, removed, runs, file>>
    /\ UNCHANGED <<updateVars, textVars, depsVars, entryVars, stepVars>>

AddNewEntries ==
    /\ pc = "removed"
    /\ \E order \in Orderings(GroupKeys(Staged(added, fresh, path_prefix))) :
          semmap' = add_new_entries(semmap, added, fresh, path_prefix, order)
    /\ pc' = "start"
    /\ runs' = runs + 1
    /\ UNCHANGED <<existing, fresh, path_prefix, before, added, removed, file>>
    /\ UNCHANGED <<updateVars, textVars, depsVars, entryVars, stepVars>>

Next == ComputeDiff \/ RemoveDeletedEntries \/ AddNewEntries

Spec == Init /\ [][Next]_vars

(***************************************************************************)
(* The two helpers called on their own: they are public, and take any      *)
(* added and removed, also paths that fresh has no entry for.              *)
(***************************************************************************)
AddedInputs(prefix) ==
    UNION {Orderings(S) :
             S \in SUBSET {prefix_path(prefix, f) : f \in FileNames \cup GoneFiles}}

\* a generated document after a person edited its header and its entries,
\* its paths in the document's namespace
Edited(g, prefix) ==
    SemmapFile(<<"Q">>, <<"x">>, ExistingLegend,
               [i \in 1..Len(g.layers) |->
                   Layer(g.layers[i].number, g.layers[i].name,
                         [j \in 1..Len(g.layers[i].entries) |->
                             EditedEntry(prefix_path(prefix, g.layers[i].entries[j].path))])])

InitHelpers ==
    /\ path_prefix \in Prefixes
    /\ existing \in {Edited(g, path_prefix) : g \in GeneratedDocs}
    /\ fresh \in FreshDocs
    /\ semmap = existing
    /\ before = existing
    /\ added \in AddedInputs(path_prefix)
    /\ removed \in SUBSET PathSet(existing)
    /\ pc = "diffed"
    /\ runs = 0
    /\ file = <<>>
    /\ UpdateIdle
    /\ TextIdle
    /\ DepsIdle
    /\ EntryIdle
    /\ StepIdle

NextHelpers == RemoveDeletedEntries \/ AddNewEntries

SpecHelpers == InitHelpers /\ [][NextHelpers]_vars

(***************************************************************************)
(* The update command: read the file, parse it, compare it with the fresh  *)
(* document, push and retain, write the file.  A file that does not parse  *)
(* is left as it is.                                                       *)
(***************************************************************************)
UpdateFiles ==
    {to_markdown(d) : d \in ExistingDocs(FileNames, <<>>, ExistingLegend)
                         \cup ExistingDocs(FileNames, <<>>, <<>>)}

\* the document files of a directory above the scan root: their paths carry
\* the prefix
PrefixedUpdateFiles(prefix) ==
    {to_markdown(d) : d \in ExistingDocs(FileNames, prefix, ExistingLegend)}

\* update(file, root): root is the directory of the file (empty prefix) or a
\* directory below it
InitUpdate ==
    /\ path_prefix \in Prefixes
    /\ file \in (IF path_prefix = <<>> THEN UpdateFiles ELSE PrefixedUpdateFiles(path_prefix))
    /\ fresh \in GeneratedDocs
    /\ previous = <<>>
    /\ updates = 0
    /\ EngineIdle
    /\ TextIdle
    /\ DepsIdle
    /\ EntryIdle
    /\ StepIdle

Update ==
    LET p == parse(file) IN
    /\ updates < MaxRuns
    /\ p.ok
    /\ \E order \in Orderings(PathSet(fresh) \ PathSet(p.doc)) :
          file' = to_markdown(UpdateDocument(p.doc, fresh, order))
    /\ previous' = file
    /\ updates' = updates + 1
    /\ UNCHANGED <<fresh, engineVars, textVars, depsVars, entryVars, stepVars>>

NextUpdate == Update

SpecUpdate == InitUpdate /\ [][NextUpdate]_vars

(***************************************************************************)
(* Reconciliation either way: by the helpers, or by the update command on  *)
(* the file of a document with a project name, a purpose and a legend of   *)
(* its own.                                                                *)
(***************************************************************************)
InitHeadedUpdate ==
    /\ path_prefix \in Prefixes
    /\ file \in {to_markdown(Edited(g, path_prefix)) : g \in GeneratedDocs}
    /\ fresh \in {generate(parse(file).doc.project_name, parse(file).doc.purpose, c) :
                    c \in Classifications}
    /\ previous = <<>>
    /\ updates = 0
    /\ EngineIdle
    /\ TextIdle
    /\ DepsIdle
    /\ EntryIdle
    /\ StepIdle

NextReconcile == NextHelpers \/ NextUpdate

SpecReconcile == (InitHelpers \/ InitHeadedUpdate) /\ [][NextReconcile]_vars

(***************************************************************************)
(* The parser and the serializer on their own: a document is serialized    *)
(* and the text parsed, or a text written by hand is parsed.               *)
(***************************************************************************)
MaxLines == 3

TitleEmDash == <<"#", " ", "P", " ", EmDash, " ", "S", "e", "m", "a", "n", "t", "i", "c", " ", "M", "a", "p">>
TitleHyphen == <<"#", " ", "P", " ", "-", " ", "S", "e", "m", "a", "n", "t", "i", "c", " ", "M", "a", "p">>
TitleTwoHyphens == <<"#", " ", "P", " ", "-", "-", " ", "S", "e", "m", "a", "n", "t", "i", "c", " ", "M", "a", "p">>
PurposeBold == <<"*", "*", "P", "u", "r", "p", "o", "s", "e", ":", "*", "*", " ", "x">>
PurposeBare == <<"P", "u", "r", "p", "o", "s", "e", ":", " ", "x">>
LegendLine == <<"#", "#", " ", "L", "e", "g", "e", "n", "d">>
LegendEntryLine == <<Backtick, "[", "T", "]", Backtick, " ", "d">>
LayerEmDash == <<"#", "#", " ", "L", "a", "y", "e", "r", " ", "0", " ", EmDash, " ", "N">>
LayerHyphen == <<"#", "#", " ", "L", "a", "y", "e", "r", " ", "0", " ", "-", " ", "N">>
LayerTwoHyphens == <<"#", "#", " ", "L", "a", "y", "e", "r", " ", "0", " ", "-", "-", " ", "N">>
LayerNoNumber == <<"#", "#", " ", "L", "a", "y", "e", "r", " ", "x", " ", EmDash, " ", "N">>
PathLine == <<Backtick, "a", Backtick>>
BodyLine == <<"W", ".", " ", "Y", ".">>
JunkLine == <<"[", "t", "]", " ", "j", "u", "n", "k">>
LayerBigNumber == <<"#", "#", " ", "L", "a", "y", "e", "r", " ", "3", "0", "0", " ", EmDash, " ", "N">>
BlankLine == <<>>

HandLines ==
    {TitleEmDash, TitleHyphen, TitleTwoHyphens, PurposeBold, PurposeBare,
     LegendLine, LegendEntryLine, LayerEmDash, LayerHyphen, LayerTwoHyphens,
     LayerNoNumber, LayerBigNumber, PathLine, BodyLine, JunkLine, BlankLine}

\* a text of lines, each ended by a line feed
RECURSIVE Unlines(_)
Unlines(ls) == IF Len(ls) = 0 THEN <<>> ELSE ls[1] \o <<NL>> \o Unlines(Tail(ls))

HandTexts == {Unlines(ls) : ls \in SeqsUpTo(HandLines, MaxLines)}

\* the lines of an entry body: descriptions with one, several and no ". ",
\* with spaces around, and the two marker lines
BodyOnlyWhat == <<"O", ".">>
BodyThreeSentences == <<"A", ".", " ", "B", ".", " ", "C", ".">>
BodyDotNoSpace == <<"x", ".", "y">>
BodyPadded == <<" ", "Z", ".", " ">>
BodyExports == <<Arrow, " ", "E", "x", "p", "o", "r", "t", "s", ":", " ", "E", ",", "F">>
BodyTouch == <<Arrow, " ", "T", "o", "u", "c", "h", ":", " ", "t">>

BodyLines ==
    {BodyLine, BodyOnlyWhat, BodyThreeSentences, BodyDotNoSpace, BodyPadded,
     BodyExports, BodyTouch}

\* the lines before the body of the first entry of a text
Preamble == <<TitleEmDash, LegendLine, LayerEmDash, PathLine>>

EntryTexts == {Unlines(Preamble \o ls) : ls \in SeqsUpTo(BodyLines, MaxLines)}

\* headers with more than one title line and more than one purpose line
TitleOther == <<"#", " ", "Q", " ", EmDash, " ", "S", "e", "m", "a", "n", "t", "i", "c", " ", "M", "a", "p">>
PurposeOther == <<"*", "*", "P", "u", "r", "p", "o", "s", "e", ":", "*", "*", " ", "y">>

HeaderLines == {TitleEmDash, TitleOther, PurposeBold, PurposeOther, LegendLine}

HeaderTexts == {Unlines(ls) : ls \in SeqsUpTo(HeaderLines, MaxLines)}

\* texts whose layers have numbers that fit in a u8 and numbers that do not
LayerTexts ==
    {Unlines(<<TitleEmDash, LegendLine>> \o ls) :
        ls \in SeqsUpTo({LayerEmDash, LayerBigNumber, PathLine}, MaxLines)}

\* the values of the data model a document is built from
TextEntries ==
    {FileEntry(<<"a">>, <<"W", ".">>, why, exports, touch) :
        why \in {<<>>, <<"Y", ".">>},
        exports \in {None, Some(<<>>), Some(<<<<"E">>>>), Some(<<<<"E">>, <<"F">>>>)},
        touch \in {None, Some(<<"t">>)}}

TextLayers ==
    {<<>>}
    \cup {<<Layer(n, <<"N">>, es)>> :
            n \in LayerNumbers, es \in {<<>>} \cup {<<e>> : e \in TextEntries}}
    \cup {<<Layer(0, <<"N">>, <<e>>), Layer(1, <<"M">>, <<EditedEntry(<<"b">>), e>>)>> :
            e \in TextEntries}

TextDocs ==
    {SemmapFile(<<"P">>, purpose, legend, layers) :
        purpose \in {<<>>, <<"x">>},
        legend \in {<<>>, ExistingLegend, default_legend},
        layers \in TextLayers}

InitText ==
    /\ \/ origin = "serializer" /\ doc \in TextDocs /\ file = <<>>
       \/ origin = "hand" /\ doc = EmptyDoc /\ file \in HandTexts \cup EntryTexts \cup HeaderTexts \cup LayerTexts
    /\ parsed = NoResult
    /\ fresh = EmptyDoc
    /\ path_prefix = <<>>
    /\ EngineIdle
    /\ UpdateIdle
    /\ DepsIdle
    /\ EntryIdle
    /\ StepIdle

\* formatter::to_markdown(&doc), written to the file
ToMarkdown ==
    /\ origin = "serializer"
    /\ file = <<>>
    /\ file' = to_markdown(doc)
    /\ UNCHANGED <<doc, origin, parsed, fresh, engineVars, updateVars, depsVars, entryVars, stepVars>>

\* parser::parse(&content)
Parse ==
    /\ file # <<>> \/ origin = "hand"
    /\ parsed = NoResult
    /\ parsed' = parse(file)
    /\ UNCHANGED <<doc, origin, file, fresh, engineVars, updateVars, depsVars, entryVars, stepVars>>

NextText == ToMarkdown \/ Parse

SpecText == InitText /\ [][NextText]_vars

(***************************************************************************)
(* The two entry parsers on their own: both are started on the same lines  *)
(* at the same cursor.                                                     *)
(***************************************************************************)
PathThenText == <<Backtick, "a", Backtick, " ", "x">>
BareToken == <<"a", ".", "r", "s">>
IndentedPath == <<" ", Backtick, "b", Backtick>>
BareExports == <<" ", " ", "E", "x", "p", "o", "r", "t", "s", ":", " ", "E", ",", " ", "F">>
BareTouch == <<" ", " ", "T", "o", "u", "c", "h", ":", " ", "t">>

EntryLines ==
    {PathLine, PathThenText, BareToken, IndentedPath, BodyLine, BodyPadded,
     BodyExports, BodyTouch, BareExports, BareTouch, BlankLine, LegendLine,
     LayerEmDash, TitleEmDash}

InitEntries ==
    /\ file \in {Unlines(ls) : ls \in SeqsUpTo(EntryLines, MaxLines)}
    /\ start \in 0..Len(Lines(file))
    /\ inner = NoEntries
    /\ public = NoEntries
    /\ pc = "entries"
    /\ existing = EmptyDoc
    /\ semmap = EmptyDoc
    /\ before = EmptyDoc
    /\ fresh = EmptyDoc
    /\ added = <<>>
    /\ removed = {}
    /\ runs = 0
    /\ path_prefix = <<>>
    /\ UpdateIdle
    /\ TextIdle
    /\ DepsIdle
    /\ StepIdle

\* parser.rs: parse_layer_entries(lines, idx), as parse_layers calls it
ParserLayerEntries ==
    /\ pc = "entries"
    /\ inner' = parse_layer_entries(Lines(file), start)
    /\ pc' = "inner"
    /\ UNCHANGED <<existing, fresh, path_prefix, semmap, before, added, removed, runs, file>>
    /\ UNCHANGED <<start, public, updateVars, textVars, depsVars, stepVars>>

\* parse_entries::parse_layer_entries(lines, idx)
ParseLayerEntries ==
    /\ pc = "inner"
    /\ public' = entries_parse_layer_entries(Lines(file), start)
    /\ pc' = "both"
    /\ UNCHANGED <<existing, fresh, path_prefix, semmap, before, added, removed, runs, file>>
    /\ UNCHANGED <<start, inner, updateVars, textVars, depsVars, stepVars>>

NextEntries == ParserLayerEntries \/ ParseLayerEntries

SpecEntries == InitEntries /\ [][NextEntries]_vars

(***************************************************************************)
(* parse, one loop iteration at a time.  pc is the loop that runs, cursor  *)
(* the shared idx; a step is one iteration of that loop, or its leaving    *)
(* the loop together with the code that follows the loop.                  *)
(***************************************************************************)
StepLines ==
    {LegendEntryLine, LayerEmDash, LayerNoNumber, PathLine, IndentedPath, BodyLine}

\* texts that begin with nothing, with a title and a legend header, or with
\* the lines up to the first path
StepTexts ==
    {Unlines(head \o ls) :
        head \in {<<>>, <<TitleEmDash, LegendLine>>, Preamble},
        ls \in SeqsUpTo(StepLines, MaxLines)}

InitSteps ==
    /\ file \in StepTexts
    /\ cursor = 0
    /\ building = [Locals EXCEPT !.lines = Lines(file)]
    /\ pc = "header"
    /\ parsed = NoResult
    /\ doc = EmptyDoc
    /\ origin = "hand"
    /\ existing = EmptyDoc
    /\ semmap = EmptyDoc
    /\ before = EmptyDoc
    /\ fresh = EmptyDoc
    /\ added = <<>>
    /\ removed = {}
    /\ runs = 0
    /\ path_prefix = <<>>
    /\ UpdateIdle
    /\ DepsIdle
    /\ EntryIdle

StepFrame ==
    UNCHANGED <<existing, fresh, path_prefix, semmap, before, added, removed, runs, file,
                doc, origin, updateVars, depsVars, entryVars>>

\* parse_header: an iteration of its loop, or the end of the loop and the
\* check of the project name
HeaderStep ==
    /\ pc = "header"
    /\ LET lines == building.lines
           line == lines[cursor + 1]
           name == IF title_regex(line).matched THEN title_regex(line).name
                   ELSE building.project_name
           purp == IF purpose_regex(line).matched THEN purpose_regex(line).text
                   ELSE building.purpose
           left == IF cursor < Len(lines)
                   THEN [building EXCEPT !.project_name = name, !.purpose = purp]
                   ELSE building
       IN  IF cursor < Len(lines) /\ ~StartsWith(line, LegendHeader)
           THEN /\ building' = [building EXCEPT !.project_name = name, !.purpose = purp]
                /\ cursor' = cursor + 1
                /\ UNCHANGED <<pc, parsed>>
           ELSE /\ building' = left
                /\ UNCHANGED cursor
                /\ IF Len(left.project_name) = 0
                   THEN pc' = "failed" /\ parsed' = [ok |-> FALSE, err |-> MissingTitle]
                   ELSE pc' = "legend" /\ UNCHANGED parsed
    /\ StepFrame

\* parse_legend: an iteration of its loop, or its end
LegendStep ==
    /\ pc = "legend"
    /\ LET lines == building.lines
           line == lines[cursor + 1]
       IN  IF cursor < Len(lines) /\ ~StartsWith(line, LayerHeader)
           THEN /\ building' =
                      IF legend_regex(line).matched
                      THEN [building EXCEPT !.legend =
                               Append(@, LegendEntry(legend_regex(line).tag,
                                                     legend_regex(line).definition))]
                      ELSE building
                /\ cursor' = cursor + 1
                /\ UNCHANGED pc
           ELSE /\ pc' = "layers"
                /\ UNCHANGED <<cursor, building>>
    /\ UNCHANGED parsed
    /\ StepFrame

\* LayersStep with a slip: a line that is no layer header is not consumed
LayersStepStuck ==
    /\ pc = "layers"
    /\ LET lines == building.lines
           caps == layer_regex(lines[cursor + 1])
       IN  IF cursor < Len(lines)
           THEN /\ IF caps.matched
                   THEN /\ building' = [building EXCEPT !.num = ParseU8OrZero(caps.number),
                                                        !.name = Trim(caps.name),
                                                        !.entries = <<>>]
                        /\ cursor' = cursor + 1
                        /\ pc' = "layer_entries"
                   ELSE UNCHANGED <<building, pc, cursor>>
                /\ UNCHANGED parsed
           ELSE /\ pc' = "parsed"
                /\ parsed' = [ok |-> TRUE,
                              doc |-> SemmapFile(building.project_name, building.purpose,
                                                 building.legend, building.layers)]
                /\ UNCHANGED <<cursor, building>>
    /\ StepFrame

\* parse_layers: an iteration of its loop, which on a layer header goes on in
\* parse_layer_entries, or its end and the Ok of parse
LayersStep ==
    /\ pc = "layers"
    /\ LET lines == building.lines
           caps == layer_regex(lines[cursor + 1])
       IN  IF cursor < Len(lines)
           THEN /\ cursor' = cursor + 1
                /\ IF caps.matched
                   THEN /\ building' = [building EXCEPT !.num = ParseU8OrZero(caps.number),
                                                        !.name = Trim(caps.name),
                                                        !.entries = <<>>]
                        /\ pc' = "layer_entries"
                   ELSE UNCHANGED <<building, pc>>
                /\ UNCHANGED parsed
           ELSE /\ pc' = "parsed"
                /\ parsed' = [ok |-> TRUE,
                              doc |-> SemmapFile(building.project_name, building.purpose,
                                                 building.legend, building.layers)]
                /\ UNCHANGED <<cursor, building>>
    /\ StepFrame

\* parse_layer_entries: an iteration of its loop, which on a path goes on in
\* parse_file_entry, or its end and the push of the layer
LayerEntriesStep ==
    /\ pc = "layer_entries"
    /\ LET lines == building.lines
           line == lines[cursor + 1]
       IN  IF /\ cursor < Len(lines)
              /\ ~(StartsWith(line, LayerHeader) \/ StartsWith(line, <<"#", " ">>))
           THEN /\ cursor' = cursor + 1
                /\ IF path_regex(line).matched
                   THEN /\ building' = [building EXCEPT !.path = path_regex(line).path,
                                                        !.desc_parts = <<>>,
                                                        !.exports = None,
                                                        !.touch = None]
                        /\ pc' = "file_entry"
                   ELSE UNCHANGED <<building, pc>>
           ELSE /\ building' = [building EXCEPT !.layers =
                                    Append(@, Layer(building.num, building.name,
                                                    building.entries))]
                /\ pc' = "layers"
                /\ UNCHANGED cursor
    /\ UNCHANGED parsed
    /\ StepFrame

\* parse_file_entry: an iteration of its loop, or its end and the push of the
\* entry
FileEntryStep ==
    /\ pc = "file_entry"
    /\ LET lines == building.lines
           trimmed == Trim(lines[cursor + 1])
           d == split_description(Join(building.desc_parts, <<" ">>))
       IN  IF /\ cursor < Len(lines)
              /\ ~(\/ Len(trimmed) = 0
                    \/ StartsWith(trimmed, <<Backtick>>)
                    \/ StartsWith(trimmed, <<"#", "#", " ">>))
           THEN /\ building' =
                      IF StartsWith(trimmed, ExportsMarker)
                      THEN [building EXCEPT !.exports =
                               Some(ExportsList(From(trimmed, Len(ExportsMarker) + 1)))]
                      ELSE IF StartsWith(trimmed, TouchMarker)
                      THEN [building EXCEPT !.touch =
                               Some(Trim(From(trimmed, Len(TouchMarker) + 1)))]
                      ELSE [building EXCEPT !.desc_parts = Append(@, trimmed)]
                /\ cursor' = cursor + 1
                /\ UNCHANGED pc
           ELSE /\ building' = [building EXCEPT !.entries =
                                    Append(@, FileEntry(building.path, d.what, d.why,
                                                        building.exports, building.touch))]
                /\ pc' = "layer_entries"
                /\ UNCHANGED cursor
    /\ UNCHANGED parsed
    /\ StepFrame

NextSteps == HeaderStep \/ LegendStep \/ LayersStep \/ LayerEntriesStep \/ FileEntryStep

\* parse runs on one thread and nothing holds it up: a step that can be
\* taken is taken
SpecSteps == InitSteps /\ [][NextSteps]_vars /\ WF_vars(NextSteps)

(***************************************************************************)
(* Properties of the parser and the serializer (under SpecText).           *)
(***************************************************************************)
Parsed == parsed # NoResult

HasTitleLine(lines) == \E i \in 1..Len(lines) : title_regex(lines[i]).matched

IsSectionLine(line) == StartsWith(line, LegendHeader) \/ StartsWith(line, LayerHeader)

TitleBeforeSections(lines) ==
    \E i \in 1..Len(lines) :
        /\ title_regex(lines[i]).matched
        /\ \A j \in 1..(i - 1) : ~IsSectionLine(lines[j])

\* C1: a document with a non-empty project name that is serialized and parsed
\* again comes back equal in every field.
RoundTrip ==
    (origin = "serializer" /\ Parsed) => (parsed.ok /\ parsed.doc = doc)

\* C7: a text none of whose lines matches the title pattern is rejected with a
\* parse error that carries a line and a message, and no document is returned.
TitleRequirement ==
    (Parsed /\ ~HasTitleLine(Lines(file))) =>
        /\ ~parsed.ok
        /\ DOMAIN parsed = {"ok", "err"}
        /\ parsed.err = MissingTitle

TitleRequirementWitness ==
    /\ origin = "hand"
    /\ file = Unlines(<<PurposeBold>>)
    /\ parsed = [ok |-> FALSE, err |-> MissingTitle]

\* C8: a text with a title line before its first Legend or Layer header is
\* parsed to a document, whatever its other lines are.
OnlyMissingTitleFails ==
    (Parsed /\ TitleBeforeSections(Lines(file))) =>
        /\ parsed.ok
        /\ Len(parsed.doc.project_name) > 0

OnlyMissingTitleFailsWitness ==
    /\ file = Unlines(<<TitleEmDash, LegendLine, LayerNoNumber>>)
    /\ parsed = [ok |-> TRUE, doc |-> SemmapFile(<<"P">>, <<>>, <<>>, <<>>)]

EmDashForm(line) ==
    IF line \in {TitleHyphen, TitleTwoHyphens} THEN TitleEmDash
    ELSE IF line \in {LayerHyphen, LayerTwoHyphens} THEN LayerEmDash
    ELSE line

\* C9: a title line or a layer header written with hyphens is parsed to the
\* same project name, layer number and layer name as its em-dash form.
SeparatorTolerance ==
    (origin = "hand" /\ Parsed) =>
        parsed = parse(Unlines([i \in 1..Len(Lines(file)) |-> EmDashForm(Lines(file)[i])]))

BoldForm(line) == IF line = PurposeBare THEN PurposeBold ELSE line

BareInHeader(lines) ==
    \E i \in 1..Len(lines) :
        /\ lines[i] = PurposeBare
        /\ \A j \in 1..(i - 1) : ~IsSectionLine(lines[j])

\* C10: in the header phase a bare purpose line sets the purpose exactly as
\* the bold purpose line does.
PurposeLabelTolerance ==
    (origin = "hand" /\ Parsed /\ BareInHeader(Lines(file))) =>
        parsed = parse(Unlines([i \in 1..Len(Lines(file)) |-> BoldForm(Lines(file)[i])]))

(***************************************************************************)
(* Properties of reconciliation (under Spec) and of the update command     *)
(* (under SpecUpdate).                                                     *)
(***************************************************************************)
Reconciled == pc = "start" /\ runs >= 1

\* the entries of a document with that path, in layer-then-entry order
EntriesAt(d, path) ==
    LET f == Flat(d.layers) IN {f[i].entry : i \in {j \in 1..Len(f) : f[j].entry.path = path}}

Occurrences(d, path) ==
    Cardinality({i \in 1..Len(all_paths(d)) : all_paths(d)[i] = path})

\* C2, for the helpers: an entry whose path is in existing and, after prefix
\* translation, in fresh is left as it is by the two helpers.
Preservation ==
    Reconciled =>
        \A path \in PathSet(before) \cap FreshPaths :
            /\ Occurrences(semmap, path) = Occurrences(before, path)
            /\ EntriesAt(semmap, path) = EntriesAt(before, path)

PreservationWitness ==
    /\ Reconciled
    /\ runs = 1
    /\ Len(added) > 0
    /\ removed # {}
    /\ \E path \in PathSet(before) \cap FreshPaths :
          /\ find_entry(semmap, path).val = EditedEntry(path)
          /\ find_entry(fresh, strip_prefix_for_lookup(path_prefix, path)).val.description
                # EditedEntry(path).description

\* C3, for the helpers: a second reconciliation against the same fresh
\* document changes nothing.
ReconcileIdempotent ==
    (pc = "start" /\ runs = 2) => semmap = before

\* C3: reconciling twice gives what reconciling once gives, and two runs of
\* the update command with no change in between write the same text, with
\* every added path in it exactly once.
Idempotence ==
    /\ ReconcileIdempotent
    /\ updates = 2 => file = previous
    /\ updates >= 1 =>
          \A path \in PathSet(fresh) \ PathSet(parse(previous).doc) :
              parse(file).ok /\ Occurrences(parse(file).doc, path) = 1

CrossLayerUnique(d) ==
    \A i, j \in 1..Len(d.layers) :
        i # j => \A x \in 1..Len(d.layers[i].entries), y \in 1..Len(d.layers[j].entries) :
                    d.layers[i].entries[x].path # d.layers[j].entries[y].path

\* C4, for all inputs: whatever the inputs, no path is in more than one layer of
\* the reconciled document.
PathUniqueness == Reconciled => CrossLayerUnique(semmap)

\* C4, amended: if no path is in more than one layer of the existing
\* document, no path is in more than one layer of the reconciled document.
PathUniquenessKept ==
    (Reconciled /\ CrossLayerUnique(before)) => CrossLayerUnique(semmap)

PathUniquenessKeptWitness ==
    /\ Reconciled
    /\ runs = 1
    /\ CrossLayerUnique(before)
    /\ Len(added) > 0
    /\ PathSet(before) \cap FreshPaths # {}
    /\ Len(semmap.layers) >= 2

NoEmptyLayer(d) == \A i \in 1..Len(d.layers) : Len(d.layers[i].entries) > 0

\* C5: after reconciliation, and after the update command, the document has
\* no layer without entries.
EmptyLayerPruning ==
    /\ Reconciled => NoEmptyLayer(semmap)
    /\ updates >= 1 => (parse(file).ok /\ NoEmptyLayer(parse(file).doc))

NumberCount(d, n) == Cardinality({i \in 1..Len(d.layers) : d.layers[i].number = n})

LayerNumbersOf(d) == {d.layers[i].number : i \in 1..Len(d.layers)}

\* C6, enforced: the reconciled document has at most one layer per number.
LayerNumberUniqueness ==
    Reconciled => \A n \in LayerNumbersOf(semmap) : NumberCount(semmap, n) = 1

\* C6, amended: reconciliation adds no second layer for a number: a number is
\* carried by one layer of the reconciled document, or by no more layers than
\* carried it in the existing document.
LayerNumberNotDuplicated ==
    Reconciled =>
        \A n \in LayerNumbersOf(semmap) :
            NumberCount(semmap, n) = 1 \/ NumberCount(semmap, n) <= NumberCount(before, n)

LayerNumberNotDuplicatedWitness ==
    /\ Reconciled
    /\ runs = 1
    /\ \E n \in GroupKeys(Staged(added, fresh, path_prefix)) :
          NumberCount(before, n) = 1 /\ NumberCount(semmap, n) = 1
    /\ \E n \in GroupKeys(Staged(added, fresh, path_prefix)) :
          NumberCount(before, n) = 0 /\ NumberCount(semmap, n) = 1

(***************************************************************************)
(* The body of an entry (under SpecText).                                  *)
(***************************************************************************)
\* the text is the preamble and an entry body, and it was parsed
EntryParsed ==
    /\ origin = "hand"
    /\ file \in EntryTexts
    /\ Parsed

\* the description lines of the body, joined as parse_file_entry joins them
JoinedDescription ==
    Join(FileEntryLoop(Lines(file), Len(Preamble), <<>>, None, None).desc_parts, <<" ">>)

DotSpaceAt(s) == {k \in 1..(Len(s) - 1) : s[k] = "." /\ s[k + 1] = " "}

FirstEntry == parsed.doc.layers[1].entries[1]

\* C11: the joined description is split at its first ". ": what is the part
\* before with a period, why the part after; without ". " what is the whole
\* text and why is empty.
DescriptionSplit ==
    EntryParsed =>
        /\ parsed.ok
        /\ Len(parsed.doc.layers) = 1
        /\ Len(parsed.doc.layers[1].entries) = 1
        /\ LET what == FirstEntry.description.what
               why == FirstEntry.description.why
           IN  IF DotSpaceAt(JoinedDescription) = {}
               THEN what = JoinedDescription /\ why = <<>>
               ELSE /\ what \o <<" ">> \o why = JoinedDescription
                    /\ what[Len(what)] = "."
                    /\ DotSpaceAt(what) = {}

DescriptionSplitWitness ==
    /\ EntryParsed
    /\ file = Unlines(Preamble \o <<BodyThreeSentences>>)
    /\ FirstEntry.description = [what |-> <<"A", ".">>, why |-> <<"B", ".", " ", "C", ".">>]

(***************************************************************************)
(* Where added entries go, and what the result lists.                      *)
(***************************************************************************)
LayersWith(d, path) ==
    {i \in 1..Len(d.layers) :
        \E j \in 1..Len(d.layers[i].entries) : d.layers[i].entries[j].path = path}

\* the path, new in the result r of reconciling e, sits in layers of number n
\* only, and in a layer named by default if e had no layer of that number
InsertedAt(e, r, path, n) ==
    /\ LayersWith(r, path) # {}
    /\ \A i \in LayersWith(r, path) :
          /\ r.layers[i].number = n
          /\ NumberCount(e, n) = 0 => r.layers[i].name = DefaultLayerName(n)

\* C12, for the helpers: add_new_entries puts every added path that fresh
\* has an entry for into the layer numbered as its layer in fresh.
InsertionTargetOfHelpers ==
    Reconciled =>
        \A i \in 1..Len(added) :
            LET lookup == strip_prefix_for_lookup(path_prefix, added[i]) IN
            lookup \in PathSet(fresh) =>
                InsertedAt(before, semmap, added[i], path_to_layer(fresh)[lookup])

\* C12: every added path is inserted into the layer numbered as the layer
\* that holds it in fresh, an existing layer of that number or else a new
\* one named "Layer <N>", by the helpers and by the update command.
InsertionTarget ==
    /\ InsertionTargetOfHelpers
    /\ updates >= 1 =>
          \A path \in PathSet(fresh) \ PathSet(parse(previous).doc) :
              InsertedAt(parse(previous).doc, parse(file).doc, path, path_to_layer(fresh)[path])

\* the paths of fresh in the namespace of the document
Translated == {prefix_path(path_prefix, x) : x \in PathSet(fresh)}

\* C13, for the helpers: an entry whose path is a translated path of fresh is
\* neither removed nor staged again, and what is inserted carries a
\* translated path.
PrefixTranslationOfHelpers ==
    Reconciled =>
        /\ \A path \in PathSet(before) \cap Translated :
              Occurrences(semmap, path) = Occurrences(before, path)
        /\ PathSet(semmap) \ PathSet(before) \subseteq Translated

\* C13: paths are compared after the prefix is put before the paths of fresh:
\* an entry p/x whose file x is in fresh is neither removed nor added again,
\* and an entry inserted for a file x has the path p/x; with the empty prefix
\* paths are compared and inserted as they are.
PrefixTranslation ==
    /\ PrefixTranslationOfHelpers
    /\ updates >= 1 =>
          LET e == parse(previous).doc
              r == parse(file).doc
          IN  /\ \A path \in PathSet(e) \cap Translated :
                    Occurrences(r, path) = Occurrences(e, path)
              /\ PathSet(r) \ PathSet(e) \subseteq Translated

\* C2: an entry whose path is in existing and, after prefix translation, in
\* fresh keeps its description, exports and touch through reconciliation, by
\* the helpers and by the update command.
PreservationOfEdits ==
    /\ Preservation
    /\ updates >= 1 =>
          LET e == parse(previous).doc
              r == parse(file).doc
          IN  \A path \in PathSet(e) \cap Translated :
                  /\ Occurrences(r, path) = Occurrences(e, path)
                  /\ EntriesAt(r, path) = EntriesAt(e, path)

(***************************************************************************)
(* What the serializer writes (under SpecText).                            *)
(***************************************************************************)
Serialized == origin = "serializer" /\ file # <<>>

LinesStarting(lines, p) == {i \in 1..Len(lines) : StartsWith(lines[i], p)}

EntriesWithExports(d) ==
    {i \in 1..Len(Flat(d.layers)) :
        LET e == Flat(d.layers)[i].entry IN e.exports.some /\ Len(e.exports.val) > 0}

EntriesWithTouch(d) ==
    {i \in 1..Len(Flat(d.layers)) : Flat(d.layers)[i].entry.touch.some}

\* C14: the text starts with the title line with the em dash; it has the
\* purpose line if and only if purpose is not empty, the Legend header if
\* and only if legend is not empty, one Exports line for every entry whose
\* exports is Some of a non-empty list and one Touch line for every entry
\* whose touch is Some.
SerializerOmissions ==
    Serialized =>
        LET lines == Lines(file) IN
        /\ lines[1] = <<"#", " ">> \o doc.project_name \o <<" ", EmDash, " ">> \o SemanticMap
        /\ (LinesStarting(lines, BoldPurpose) # {}) <=> (Len(doc.purpose) > 0)
        /\ Cardinality(LinesStarting(lines, BoldPurpose)) <= 1
        /\ (LinesStarting(lines, LegendHeader) # {}) <=> (Len(doc.legend) > 0)
        /\ Cardinality(LinesStarting(lines, LegendHeader)) <= 1
        /\ Cardinality(LinesStarting(lines, ExportsMarker))
              = Cardinality(EntriesWithExports(doc))
        /\ Cardinality(LinesStarting(lines, TouchMarker))
              = Cardinality(EntriesWithTouch(doc))

SerializerOmissionsWitness ==
    /\ Serialized
    /\ doc.purpose = <<>>
    /\ doc.legend = <<>>
    /\ \E i \in 1..Len(Flat(doc.layers)) :
          /\ Flat(doc.layers)[i].entry.exports = Some(<<>>)
          /\ Flat(doc.layers)[i].entry.touch = Some(<<"t">>)
    /\ LinesStarting(Lines(file), ExportsMarker) = {}
    /\ LinesStarting(Lines(file), TouchMarker) # {}

(***************************************************************************)
(* The queries of the document model, on the fresh document (under Spec).  *)
(***************************************************************************)
Highest(S) == CHOOSE i \in S : \A j \in S : j <= i

Lowest(S) == CHOOSE i \in S : \A j \in S : i <= j

\* the first entry with that path in the first layer that has one
FirstMatch(d, path) ==
    LET l == d.layers[Lowest(LayersWith(d, path))]
    IN  l.entries[Lowest({j \in 1..Len(l.entries) : l.entries[j].path = path})]

\* C15: path_to_layer maps every path of the document, and a path of several
\* layers to the number of the last of them in document order; find_entry
\* returns the first entry with the path in layer-then-entry order, and
\* nothing for a path the document does not have.
PathQueries ==
    LET map == path_to_layer(fresh)
        paths == PathSet(fresh)
    IN  /\ DOMAIN map = paths
        /\ \A path \in paths :
              /\ map[path] = fresh.layers[Highest(LayersWith(fresh, path))].number
              /\ find_entry(fresh, path) = Some(FirstMatch(fresh, path))
        /\ \A path \in (FileNames \cup GoneFiles) \ paths :
              find_entry(fresh, path) = None

\* add_new_entries has used the map for a path that fresh has in two layers
\* with two entries: the path went to the layer of the last one
PathQueriesWitness ==
    /\ Reconciled
    /\ \E i \in 1..Len(added) :
          LET lookup == strip_prefix_for_lookup(path_prefix, added[i]) IN
          /\ Cardinality(LayersWith(fresh, lookup)) = 2
          /\ path_to_layer(fresh)[lookup] = 0
          /\ find_entry(fresh, lookup) = Some(FreshEntry(lookup))
          /\ fresh.layers[2].entries[1] = SecondEntry(lookup)
          /\ \A l \in LayersWith(semmap, added[i]) : semmap.layers[l].number = 0

(***************************************************************************)
(* deps.rs: the check of the dependency edges against the layers.          *)
(***************************************************************************)
MaxEdges == 2

DepEdge(from, to) == [from |-> from, to |-> to, kind |-> "Import"]

\* format!("Layer violation: {} (L{}) depends on {} (L{})", ...)
ViolationMessage(from, fl, to, tl) ==
    <<"L", "a", "y", "e", "r", " ", "v", "i", "o", "l", "a", "t", "i", "o", "n", ":", " ">> \o from
    \o <<" ", "(", "L">> \o NumToStr(fl) \o <<")", " ", "d", "e", "p", "e", "n", "d", "s", " ", "o", "n", " ">> \o to
    \o <<" ", "(", "L">> \o NumToStr(tl) \o <<")">>

RECURSIVE check_layer_violations(_, _)
check_layer_violations(depmap_edges, the_semmap) ==
    IF Len(depmap_edges) = 0 THEN <<>>
    ELSE LET edge == depmap_edges[1]
             map == path_to_layer(the_semmap)
         IN  (IF /\ edge.from \in DOMAIN map
                 /\ edge.to \in DOMAIN map
                 /\ map[edge.to] > map[edge.from]
              THEN <<ViolationMessage(edge.from, map[edge.from], edge.to, map[edge.to])>>
              ELSE <<>>)
             \o check_layer_violations(Tail(depmap_edges), the_semmap)

\* the facade file of the crate, and two other files
LibRs == <<"s", "r", "c", "/", "l", "i", "b", ".", "r", "s">>
DepPaths == {LibRs, <<"a">>, <<"b">>}

\* the entries of a layer: the paths placed in it
PlacedIn(place, num) ==
    LET here == {q \in DepPaths : place[q] = num}
        order == CHOOSE o \in Orderings(here) : TRUE
    IN  [i \in 1..Len(order) |-> EditedEntry(order[i])]

\* the documents with every path in layer 0, in layer 1 or in no layer
DepDocs ==
    {SemmapFile(<<"P">>, <<>>, <<>>,
                <<Layer(0, LayerNames[1], PlacedIn(place, 0)),
                  Layer(1, LayerNames[2], PlacedIn(place, 1))>>) :
        place \in [DepPaths -> {0, 1, 2}]}

InitDeps ==
    /\ semmap \in DepDocs
    /\ edges \in SeqsUpTo({DepEdge(f, t) : f \in DepPaths, t \in DepPaths}, MaxEdges)
    /\ violations = <<>>
    /\ pc = "deps"
    /\ existing = EmptyDoc
    /\ before = EmptyDoc
    /\ added = <<>>
    /\ removed = {}
    /\ runs = 0
    /\ path_prefix = <<>>
    /\ fresh = EmptyDoc
    /\ file = <<>>
    /\ UpdateIdle
    /\ TextIdle
    /\ EntryIdle
    /\ StepIdle

\* deps::check_layer_violations(&depmap, &semmap)
CheckLayerViolations ==
    /\ pc = "deps"
    /\ violations' = check_layer_violations(edges, semmap)
    /\ pc' = "checked"
    /\ UNCHANGED <<existing, fresh, path_prefix, semmap, before, added, removed, runs, file>>
    /\ UNCHANGED <<edges, updateVars, textVars, entryVars, stepVars>>

NextDeps == CheckLayerViolations

SpecDeps == InitDeps /\ [][NextDeps]_vars

\* the reports for the edges that go to a layer of a greater number, but for
\* those leaving one of the exempt files
RECURSIVE ExpectedReports(_, _, _)
ExpectedReports(es, d, exempt) ==
    IF Len(es) = 0 THEN <<>>
    ELSE LET fs == {d.layers[i].number : i \in LayersWith(d, es[1].from)}
             ts == {d.layers[i].number : i \in LayersWith(d, es[1].to)}
         IN  (IF es[1].from \notin exempt /\ \E fl \in fs, tl \in ts : tl > fl
              THEN <<ViolationMessage(es[1].from, Highest(fs), es[1].to, Highest(ts))>>
              ELSE <<>>)
             \o ExpectedReports(Tail(es), d, exempt)

\* C16, without the exemption: an edge is reported exactly when its target
\* is in a layer of a greater number than its source.
UpwardEdgesReported ==
    pc = "checked" => violations = ExpectedReports(edges, semmap, {})

\* C16: an edge is reported exactly when its target is in a layer of a
\* greater number than its source, and an edge leaving the facade file
\* src/lib.rs is never reported.
LayerViolations ==
    pc = "checked" => violations = ExpectedReports(edges, semmap, {LibRs})

(***************************************************************************)
(* The header phase of parse (under SpecText).                             *)
(***************************************************************************)
HandParsed == origin = "hand" /\ Parsed

SectionLines(lines) == {i \in 1..Len(lines) : IsSectionLine(lines[i])}

\* a layer header directly followed by a path line, in a text with a title
\* line before them and no Legend header
LayerWithEntryAt(lines, i) ==
    /\ i + 1 <= Len(lines)
    /\ layer_regex(lines[i]).matched
    /\ path_regex(lines[i + 1]).matched
    /\ \E t \in 1..(i - 1) : title_regex(lines[t]).matched
    /\ LinesStarting(lines, LegendHeader) = {}

\* C17: the header phase stops at the first line that starts with
\* "## Legend" or "## Layer" and leaves the cursor on it; so a text with a
\* title line, no Legend section and a layer header followed by an entry
\* parses to a document with that layer and that entry.
HeaderPhaseBoundary ==
    HandParsed =>
        LET lines == Lines(file) IN
        /\ parse_header(lines, 0).idx
              = IF SectionLines(lines) = {} THEN Len(lines)
                ELSE Lowest(SectionLines(lines)) - 1
        /\ \A i \in 1..Len(lines) :
              LayerWithEntryAt(lines, i) =>
                  /\ parsed.ok
                  /\ \E l \in 1..Len(parsed.doc.layers) :
                        /\ parsed.doc.layers[l].number = layer_regex(lines[i]).number
                        /\ parsed.doc.layers[l].name = layer_regex(lines[i]).name
                        /\ \E e \in 1..Len(parsed.doc.layers[l].entries) :
                              parsed.doc.layers[l].entries[e].path
                                 = path_regex(lines[i + 1]).path

\* the lines of the header phase: those before the first section header
HeaderPhase(lines) ==
    IF SectionLines(lines) = {} THEN 1..Len(lines)
    ELSE 1..(Lowest(SectionLines(lines)) - 1)

TitlesIn(lines) == {i \in HeaderPhase(lines) : title_regex(lines[i]).matched}

PurposesIn(lines) == {i \in HeaderPhase(lines) : purpose_regex(lines[i]).matched}

\* C18: of several title lines in the header phase the first gives the
\* project name, and of several purpose lines the first gives the purpose.
FirstMatchWins ==
    (HandParsed /\ parsed.ok) =>
        LET lines == Lines(file) IN
        /\ TitlesIn(lines) # {} =>
              parsed.doc.project_name = title_regex(lines[Lowest(TitlesIn(lines))]).name
        /\ PurposesIn(lines) # {} =>
              parsed.doc.purpose = purpose_regex(lines[Lowest(PurposesIn(lines))]).text

\* C18, as the code has it: the last title line and the last purpose line
\* before the Legend header give the project name and the purpose.
LastMatchWins ==
    (HandParsed /\ parsed.ok /\ file \in HeaderTexts) =>
        LET lines == Lines(file) IN
        /\ TitlesIn(lines) # {} =>
              parsed.doc.project_name = title_regex(lines[Highest(TitlesIn(lines))]).name
        /\ PurposesIn(lines) # {} =>
              parsed.doc.purpose = purpose_regex(lines[Highest(PurposesIn(lines))]).text

(***************************************************************************)
(* The order of the result.                                                *)
(***************************************************************************)
LayersAscending(d) ==
    \A i, j \in 1..Len(d.layers) : i < j => d.layers[i].number <= d.layers[j].number

EntriesAscending(d) ==
    \A l \in 1..Len(d.layers) :
        \A i, j \in 1..Len(d.layers[l].entries) :
            i < j => StrLeq(d.layers[l].entries[i].path, d.layers[l].entries[j].path)

\* C19, for the helpers: after add_new_entries the layers are in ascending
\* order of number and the entries of every layer in ascending order of path.
OutputOrderOfHelpers ==
    Reconciled => (LayersAscending(semmap) /\ EntriesAscending(semmap))

\* C19: in the reconciled document the layers are in ascending order of
\* number and the entries of every layer, also of a layer that received
\* nothing, in ascending order of path; so it is after the update command.
OutputOrder ==
    /\ OutputOrderOfHelpers
    /\ updates >= 1 =>
          /\ parse(file).ok
          /\ LayersAscending(parse(file).doc)
          /\ EntriesAscending(parse(file).doc)

\* C20, for the helpers: the paths of the result are the translated paths of
\* fresh.
ConvergenceOfHelpers ==
    Reconciled => PathSet(semmap) = Translated

\* C20: after reconciliation the set of paths of the result is the set of
\* translated paths of fresh: a path of existing that fresh does not have is
\* in no layer, and a path of fresh that existing did not have is there; so
\* it is after the update command.
Convergence ==
    /\ ConvergenceOfHelpers
    /\ updates >= 1 => (parse(file).ok /\ PathSet(parse(file).doc) = Translated)

(***************************************************************************)
(* The helpers with a path that fresh has no entry for (under SpecHelpers). *)
(***************************************************************************)
Lookup(path) == strip_prefix_for_lookup(path_prefix, path)

Misses == {i \in 1..Len(added) : Lookup(added[i]) \notin PathSet(fresh)}

Hits == (1..Len(added)) \ Misses

\* C21: a path of added that fresh has no entry for, after the prefix is
\* stripped, is skipped: the helpers return, no entry and no layer is made
\* for it, and the other added and the removed paths are handled as they are
\* without it.
LookupMiss ==
    Reconciled =>
        LET pruned == remove_deleted_entries(before, removed)
            found == SelectSeq(added, LAMBDA path : Lookup(path) \in PathSet(fresh))
        IN  /\ \A i \in Misses :
                  Occurrences(semmap, added[i]) = Occurrences(pruned, added[i])
            /\ \A l \in 1..Len(semmap.layers) :
                  NumberCount(pruned, semmap.layers[l].number) = 0 =>
                      \E i \in Hits :
                          path_to_layer(fresh)[Lookup(added[i])] = semmap.layers[l].number
            /\ \A i \in Hits :
                  Occurrences(semmap, added[i]) = Occurrences(pruned, added[i]) + 1
            /\ \A path \in removed :
                  Occurrences(semmap, path)
                      = Cardinality({i \in Hits : added[i] = path})
            /\ \E order \in Orderings(GroupKeys(Staged(found, fresh, path_prefix))) :
                  semmap = add_new_entries(pruned, found, fresh, path_prefix, order)

\* a run with a path that is skipped, a path that is inserted and a path that
\* is removed
LookupMissWitness ==
    /\ Reconciled
    /\ Misses # {}
    /\ Hits # {}
    /\ removed # {}
    /\ \E i \in Misses : added[i] \notin PathSet(semmap)
    /\ \E i \in Hits : added[i] \in PathSet(semmap) \ PathSet(before)

(***************************************************************************)
(* The entry parsers (under SpecEntries).                                  *)
(***************************************************************************)
BothParsed == pc = "both"

\* a line that ends an entry body: blank, starting with a backtick or with
\* "## ", spaces around it aside
EndsBody(line) ==
    \/ Len(Trim(line)) = 0
    \/ StartsWith(Trim(line), <<Backtick>>)
    \/ StartsWith(Trim(line), <<"#", "#", " ">>)

\* the lines of the body that begins after line number from
BodyOf(lines, from) ==
    LET ends == {k \in (from + 1)..Len(lines) : EndsBody(lines[k])}
        last == IF ends = {} THEN Len(lines) ELSE Lowest(ends) - 1
    IN  SubSeq(lines, from + 1, last)

MarkerLines(body, marker) == {i \in 1..Len(body) : StartsWith(Trim(body[i]), marker)}

AfterMarker(body, marker) ==
    Trim(From(Trim(body[Highest(MarkerLines(body, marker))]), Len(marker) + 1))

RECURSIVE TrimAll(_)
TrimAll(ls) == IF Len(ls) = 0 THEN <<>> ELSE <<Trim(ls[1])>> \o TrimAll(Tail(ls))

\* the entry the body gives, the markers being the two with the arrow
ExpectedEntry(path, body) ==
    LET text == SelectSeq(body, LAMBDA l : /\ ~StartsWith(Trim(l), ExportsMarker)
                                          /\ ~StartsWith(Trim(l), TouchMarker))
        d == split_description(Join(TrimAll(text), <<" ">>))
    IN  FileEntry(path, d.what, d.why,
                  IF MarkerLines(body, ExportsMarker) = {} THEN None
                  ELSE Some(TrimAll(Split(AfterMarker(body, ExportsMarker), ","))),
                  IF MarkerLines(body, TouchMarker) = {} THEN None
                  ELSE Some(AfterMarker(body, TouchMarker)))

\* the parsers were started on a line that is a path in backticks
BodyEntered ==
    /\ BothParsed
    /\ start < Len(Lines(file))
    /\ Lines(file)[start + 1] = PathLine

\* C22, for parser.rs: the first entry parse_layer_entries returns is the one
\* the body gives.
BodyMarkersOfParser ==
    BodyEntered =>
        /\ Len(inner.entries) >= 1
        /\ inner.entries[1] = ExpectedEntry(<<"a">>, BodyOf(Lines(file), start + 1))

\* C22: in an entry body a line beginning with the exports marker sets
\* exports to the trimmed items of the rest, a line beginning with the touch
\* marker sets touch to the trimmed rest, neither goes to the description,
\* every other line does, and the body ends at the first blank line,
\* backtick line or "## " line; in parser.rs and in parse_entries.rs.
BodyMarkers ==
    /\ BodyMarkersOfParser
    /\ BodyEntered =>
          /\ Len(public.entries) >= 1
          /\ public.entries[1] = ExpectedEntry(<<"a">>, BodyOf(Lines(file), start + 1))

\* the parsers were started on the last line of the text
AtLastLine ==
    /\ BothParsed
    /\ Len(Lines(file)) >= 1
    /\ start + 1 = Len(Lines(file))

\* the whole line is one token in backticks
Wrapped(line) ==
    /\ Len(line) >= 3
    /\ line[1] = Backtick
    /\ line[Len(line)] = Backtick
    /\ \A k \in 2..(Len(line) - 1) : line[k] # Backtick

\* the whole line is one bare token with a dot and an extension
BareTokenWithExtension(line) ==
    /\ Len(line) >= 3
    /\ line[1] # Backtick
    /\ \A k \in 1..Len(line) : ~IsSpace(line[k])
    /\ \E k \in 2..(Len(line) - 1) : line[k] = "."

\* C23: inside a layer a line starts an entry only when the whole of it is
\* wrapped in backticks, the path being the text between them, or when it is
\* a bare token with a dot-extension; a line that begins with a token in
\* backticks and goes on with other text starts none.
EntryStart ==
    AtLastLine =>
        LET line == Lines(file)[start + 1] IN
        /\ inner.entries # <<>> <=> (Wrapped(line) \/ BareTokenWithExtension(line))
        /\ Wrapped(line) =>
              /\ Len(inner.entries) = 1
              /\ inner.entries[1].path = SubSeq(line, 2, Len(line) - 1)

\* what path_regex does: the line starts an entry when it begins with a token
\* in backticks, whatever follows
EntryStartAtLeadingToken ==
    AtLastLine =>
        LET line == Lines(file)[start + 1] IN
        inner.entries # <<>> <=>
            \E k \in 3..Len(line) :
                /\ line[1] = Backtick
                /\ line[k] = Backtick
                /\ \A j \in 2..(k - 1) : line[j] # Backtick
                /\ inner.entries[1].path = SubSeq(line, 2, k - 1)

\* C30: from every cursor of every text the two entry parsers return the
\* same entries and leave the same cursor.
EntryParsersAgree ==
    BothParsed => public = inner

\* where the two do agree: on a text without a line that begins, spaces
\* aside, with one of the four markers
NoMarkerLine ==
    \A i \in 1..Len(Lines(file)) :
        \A m \in {ExportsMarker, TouchMarker, BareExportsMarker, BareTouchMarker} :
            ~StartsWith(Trim(Lines(file)[i]), m)

EntryParsersAgreeWithoutMarkers ==
    (BothParsed /\ NoMarkerLine) => public = inner

(***************************************************************************)
(* The two path functions (under Spec).                                    *)
(***************************************************************************)
\* paths and prefixes as the tests of path_utils use them: plain, nested,
\* beginning with the prefix and a slash, beginning with the prefix only
PathInputs ==
    {<<"a">>, <<"b">>, <<"z">>, <<"p", "/", "a">>, <<"p", "a">>, <<"p">>,
     <<"o", "/", "a">>, <<"s", "/", "l", "/", "a">>}

PrefixInputs == Prefixes \cup {<<"s">>, <<"s", "/", "l">>}

\* C24: stripping the prefix undoes putting it before a path; with the empty
\* prefix both functions return the path; a path that does not begin with
\* the prefix and a slash is returned as it is; and so every path of added
\* is found in fresh after the prefix is stripped.
PrefixRoundTrip ==
    /\ \A q \in PrefixInputs \cup {path_prefix} :
          \A x \in PathInputs \cup PathSet(fresh) :
              /\ strip_prefix_for_lookup(q, prefix_path(q, x)) = x
              /\ q = <<>> => prefix_path(q, x) = x /\ strip_prefix_for_lookup(q, x) = x
              /\ ~StartsWith(x, q \o <<"/">>) => strip_prefix_for_lookup(q, x) = x
    /\ \A i \in 1..Len(added) :
          /\ strip_prefix_for_lookup(path_prefix, added[i]) \in PathSet(fresh)
          /\ prefix_path(path_prefix, strip_prefix_for_lookup(path_prefix, added[i])) = added[i]

\* a path went into added with the prefix and was inserted from the entry
\* that fresh has for it without the prefix
PrefixRoundTripWitness ==
    /\ Reconciled
    /\ path_prefix = <<"p">>
    /\ \E i \in 1..Len(added) :
          /\ StartsWith(added[i], <<"p", "/">>)
          /\ strip_prefix_for_lookup(path_prefix, added[i]) \in PathSet(fresh)
          /\ added[i] \notin PathSet(fresh)
          /\ added[i] \in PathSet(semmap) \ PathSet(before)

(***************************************************************************)
(* What reconciliation leaves alone.                                       *)
(***************************************************************************)
SameHeader(d, e) ==
    /\ d.project_name = e.project_name
    /\ d.purpose = e.purpose
    /\ d.legend = e.legend

\* C25, for the helpers: after remove_deleted_entries and add_new_entries the
\* document has the project name, the purpose and the legend it had.
FrameOfHelpers ==
    pc \in {"removed", "start"} => SameHeader(semmap, existing)

\* C25, for the update command: the file written has the header of the file
\* read.
FrameOfUpdate ==
    updates >= 1 =>
        /\ parse(file).ok
        /\ SameHeader(parse(file).doc, parse(previous).doc)

\* C25: reconciliation changes the layers only: the project name, the
\* purpose and the legend of the result are those of the existing document,
\* whatever fresh has for them.
Frame ==
    /\ FrameOfHelpers
    /\ FrameOfUpdate

\* the helpers changed the layers of a document whose project name, purpose
\* and legend are not those of fresh
FrameWitness ==
    /\ Reconciled
    /\ semmap.layers # existing.layers
    /\ Len(added) > 0
    /\ removed # {}
    /\ fresh.project_name # existing.project_name
    /\ fresh.purpose # existing.purpose
    /\ fresh.legend # existing.legend
    /\ SameHeader(semmap, existing)

NamesOf(d, n) == {d.layers[i].name : i \in {j \in 1..Len(d.layers) : d.layers[j].number = n}}

\* a layer of d with the number n has an entry that is not removed
KeepsEntry(d, n) ==
    \E i \in 1..Len(d.layers) :
        /\ d.layers[i].number = n
        /\ \E j \in 1..Len(d.layers[i].entries) : d.layers[i].entries[j].path \notin removed

\* C26, as stated: a layer number of the existing and of the reconciled
\* document has in the result the name it had, also when all its entries
\* were removed and fresh adds entries for the number in the same run.
LayerNamesSurvive ==
    Reconciled =>
        \A n \in LayerNumbersOf(before) \cap LayerNumbersOf(semmap) :
            NamesOf(semmap, n) \subseteq NamesOf(before, n)

\* C26, amended: a layer that keeps an entry keeps its name; a number whose
\* layers lose every entry is dropped with its name, and entries that fresh
\* adds for it in the same run come in a new layer with the default name.
LayerNamesOfKeptLayers ==
    Reconciled =>
        \A n \in LayerNumbersOf(semmap) :
            IF KeepsEntry(before, n)
            THEN NamesOf(semmap, n) \subseteq NamesOf(before, n)
            ELSE NamesOf(semmap, n) = {DefaultLayerName(n)}

\* one layer kept an entry and has its name; the other lost all its entries,
\* and the number is back, for an added entry, under the default name
LayerNamesOfKeptLayersWitness ==
    /\ Reconciled
    /\ runs = 1
    /\ \E n \in LayerNumbersOf(before) :
          /\ KeepsEntry(before, n)
          /\ NamesOf(semmap, n) = {<<"N">>}
    /\ \E n \in LayerNumbersOf(before) \cap GroupKeys(Staged(added, fresh, path_prefix)) :
          /\ ~KeepsEntry(before, n)
          /\ NamesOf(before, n) = {<<"N">>}
          /\ NamesOf(semmap, n) = {DefaultLayerName(n)}

\* how many entries of d with that path are in layers numbered n
CountIn(d, path, n) ==
    LET f == Flat(d.layers) IN
    Cardinality({i \in 1..Len(f) : f[i].entry.path = path /\ f[i].number = n})

\* C27: an entry whose path is in the existing and, after prefix translation,
\* in the fresh document stays in the layer number it has: it is neither
\* moved nor copied to the layer fresh has the path in.
NoMigration ==
    Reconciled =>
        \A path \in PathSet(before) \cap FreshPaths :
            \A n \in LayerNumbersOf(before) \cup LayerNumbersOf(semmap) \cup LayerNumbersOf(fresh) :
                CountIn(semmap, path, n) = CountIn(before, path, n)

\* a path that fresh has in another layer stayed where it was, in a run that
\* added an entry to the layer fresh has it in
NoMigrationWitness ==
    /\ Reconciled
    /\ runs = 1
    /\ \E path \in PathSet(before) \cap FreshPaths :
          LET n == path_to_layer(fresh)[Lookup(path)] IN
          /\ CountIn(before, path, n) = 0
          /\ CountIn(semmap, path, n) = 0
          /\ n \in GroupKeys(Staged(added, fresh, path_prefix))
          /\ \E m \in LayerNumbersOf(semmap) : CountIn(semmap, path, m) = 1

(***************************************************************************)
(* The progress of parse (under SpecSteps).                                *)
(***************************************************************************)
Finished == pc \in {"parsed", "failed"}

\* how deep a loop lies: header, then legend, then layers, and in layers the
\* entries of a layer, and in them the body of an entry
Depth(loop) ==
    CASE loop = "header" -> 5
      [] loop = "legend" -> 4
      [] loop = "file_entry" -> 3
      [] loop = "layer_entries" -> 2
      [] loop = "layers" -> 1
      [] OTHER -> 0

\* what is left to do with idx lines consumed in that loop: the lines not
\* consumed, and the loops to leave
Rank(idx, loop) == 6 * (Len(building.lines) - idx) + Depth(loop)

\* the step model returns what parse returns
StepsComputeParse == Finished => parsed = parse(file)

\* C28: parse terminates on every text; the cursor never decreases and never
\* exceeds the number of lines; every iteration of every loop advances the
\* cursor by one line or leaves its loop; and a line an inner loop leaves
\* unconsumed is consumed by a loop around it, so that what is left to do
\* gets less with every step.
ParserProgress ==
    /\ [](cursor \in 0..Len(Lines(file)))
    /\ [][/\ cursor' >= cursor
          /\ cursor' = cursor + 1 \/ pc' # pc
          /\ building'.lines = building.lines
          /\ Rank(cursor', pc') < Rank(cursor, pc)]_vars
    /\ <>Finished

\* parse returned a layer with two entries: the body of the first was left at
\* an indented path line, which the loop over the entries consumed, and the
\* body of the second at a layer header that is none, which the loop over the
\* layers consumed
ParserProgressWitness ==
    /\ pc = "parsed"
    /\ file = Unlines(Preamble \o <<IndentedPath, PathLine, LayerNoNumber>>)
    /\ cursor = Len(Lines(file))
    /\ Len(parsed.doc.layers) = 1
    /\ Len(parsed.doc.layers[1].entries) = 2

(***************************************************************************)
(* Layer numbers that do not fit in a u8 (under SpecText).                 *)
(***************************************************************************)
\* the first line from index i on that starts with p, or one past the end
RECURSIVE FirstStarting(_, _, _)
FirstStarting(lines, i, p) ==
    IF i > Len(lines) THEN i
    ELSE IF StartsWith(lines[i], p) THEN i
    ELSE FirstStarting(lines, i + 1, p)

\* the lines the header pattern matches, from the line the layers begin at:
\* the first "## Layer" line after the first "## Legend" line
LayerHeadersOf(lines) ==
    LET at == FirstStarting(lines, FirstStarting(lines, 1, LegendHeader), LayerHeader)
    IN  SelectSeq(From(lines, at), LAMBDA l : layer_regex(l).matched)

TooBig(line) == DigitsValue(layer_regex(line).number) > U8Max

\* C29: a layer header whose number is greater than 255 is a layer header
\* all the same: the text is not rejected for it, the header makes a layer
\* like every other header, and the number of that layer is 0, which is not
\* the number modulo 256 unless that is 0 too.
LayerNumberRange ==
    (origin = "hand" /\ Parsed /\ TitleBeforeSections(Lines(file))) =>
        LET hs == LayerHeadersOf(Lines(file)) IN
        /\ parsed.ok
        /\ Len(parsed.doc.layers) = Len(hs)
        /\ \A k \in 1..Len(hs) :
              /\ TooBig(hs[k]) => parsed.doc.layers[k].number = 0
              /\ ~TooBig(hs[k]) =>
                    parsed.doc.layers[k].number = DigitsValue(layer_regex(hs[k]).number)

\* "## Layer 300" after "## Layer 0": two layers, both with number 0
LayerNumberRangeWitness ==
    /\ Parsed
    /\ Lines(file) = <<TitleEmDash, LegendLine, LayerEmDash, PathLine, LayerBigNumber>>
    /\ parsed.ok
    /\ Len(parsed.doc.layers) = 2
    /\ parsed.doc.layers[1].number = 0
    /\ parsed.doc.layers[2].number = 0
    /\ parsed.doc.layers[2].name = <<"N">>
    /\ DigitsValue(layer_regex(LayerBigNumber).number) % (U8Max + 1) = 44

====
